---- MODULE Spec2Model ----
(***************************************************************************)
(* A model of github.com/icza/session: the Session value, the in-memory    *)
(* Store with its session cleaner goroutine, and the goroutines that call  *)
(* the Store concurrently.                                                 *)
(*                                                                         *)
(* Goroutines are interleaved at the granularity of lock operations and    *)
(* of the reads and writes the locks protect.  Time is a discrete wall     *)
(* clock; time.Now() reads it.                                             *)
(***************************************************************************)
EXTENDS Integers, Sequences, FiniteSets, TLC

\* ------------------------------------------------------------- bounds
\* Last instant of the wall clock the model explores.
MaxTime == 3
\* Last instant of the wall clock under SpecTimed.
MaxTimeTimed == 4
\* InMemStoreOptions.SessCleanerInterval the store is built with, in clock
\* units.
SessCleanerInterval == 1
\* The most Set-Cookie headers a handler puts on one response.
MaxSetCookies == 2

\* Request-handling goroutines.
Procs == {"p1", "p2"}
\* The session cleaner goroutine, as a lock holder.
CL == "cl"
\* Heap cells that can hold a sessionImpl value (object identities).
Refs == {"s1", "s2"}
\* Values genID can return (two cells may draw the same id).
Ids == {"a", "b"}
\* Attribute names and (non-nil) attribute values.
Names == {"x", "y"}
Values == {"v1", "v2"}

\* Go's nil.
Nil == "nil"
\* "nobody" as the holder of a mutex.
None == "none"
\* A map without entries (also what reading a nil map sees).
EmptyMap == [n \in {} |-> Nil]

\* SessOptions.Timeout == 0 selects 30 * time.Minute (in seconds).
DefaultTimeout == 1800

\* SessOptions values: the zero options but for the timeout, as the callers
\* of the store use them ...
StoreOptions == [Timeout : {SessCleanerInterval, SessCleanerInterval + 1},
                 Attrs : {EmptyMap}, CAttrs : {EmptyMap}]
\* ... and options with the default timeout and initial attributes, one of
\* them with a nil value.
AttrOptions == [Timeout : {0},
                Attrs : {EmptyMap, [n \in {"x"} |-> "v1"], [n \in {"y"} |-> Nil]},
                CAttrs : {EmptyMap}]

\* ... and the options a caller fills in before it writes to the maps itself.
CopyOptions == [Timeout : {0}, Attrs : {EmptyMap, [n \in {"x"} |-> "v1"]},
                CAttrs : {EmptyMap, [n \in {"y"} |-> "v1"]}]

\* ... and options with all of it: a short timeout, an initial attribute and
\* a constant attribute.
FrameOptions == [Timeout : {SessCleanerInterval}, Attrs : {[n \in {"x"} |-> "v1"]},
                 CAttrs : {[n \in {"y"} |-> "v1"]}]

VARIABLES
    now,          \* the wall clock (time.Now())
    sess,         \* heap: Refs -> sessionImpl value, or NoSess when not allocated
    smux,         \* sessionImpl.mux of every cell
    sessions,     \* inMemStore.sessions: id -> cell, Nil when the key is absent
    mux,          \* inMemStore.mux
    closeTicker,  \* inMemStore.closeTicker: TRUE once the channel is closed
    tickerOn,     \* the time.Ticker of sessCleaner is running
    tickerC,      \* ticker.C, a channel of capacity 1: << >> or <<t>>
    cl,           \* the sessCleaner goroutine: position and locals
    th,           \* the request goroutines: position and locals
    removed,      \* history: the ids whose Remove has returned, no Add called since
    lin,          \* history: per cell, the SetAttr calls applied in lock order
    addedAt,      \* history (SpecTimed): per id, the instant of the last Add
    mngr,         \* the CookieManager: its fields, NoMngr before construction
    jar,          \* the client's cookie jar: the cookies it sends with a request
    req,          \* per handler goroutine: << >>, or <<the cookies of r>>
    resp,         \* per handler goroutine: the cookies set on w, in order
    held          \* per goroutine: the maps it holds outside the sessions

vars == <<now, sess, smux, sessions, mux, closeTicker, tickerOn, tickerC,
          cl, th, removed, lin, addedAt, mngr, jar, req, resp, held>>

\* ------------------------------------------------------ sync.RWMutex
\* w: the goroutine that holds the writer mutex (it announced itself and
\* either waits for the readers to leave or holds the lock); r: the readers.
FreeMux == [w |-> None, r |-> {}]

\* RLock succeeds while no writer has announced itself.
CanRLock(m) == m.w = None
\* (DoRLockNone is a faulty variant: the reader is not counted)
DoRLockNone(m, h) == m
DoRLock(m, h) == [m EXCEPT !.r = @ \cup {h}]
DoRUnlock(m, h) == [m EXCEPT !.r = @ \ {h}]
\* Lock, first half: take the writer mutex and announce.
CanAnnounce(m) == m.w = None
DoAnnounce(m, h) == [m EXCEPT !.w = h]
\* Lock, second half: wait until the active readers have left.
Drained(m) == m.r = {}
DoUnlock(m) == [m EXCEPT !.w = None]

\* ------------------------------------------------------- sessionImpl
NoSess == [IDF |-> Nil, CreatedF |-> 0, AccessedF |-> 0, TimeoutF |-> 0,
           AttrsF |-> EmptyMap, CAttrsF |-> EmptyMap]

Live(s) == sess[s] # NoSess

\* The sessionImpl value NewSessionOptions builds at instant t from options o.
\* (NewSessionValueLate is a faulty variant: the access time is read later)
NewSessionValueLate(id, t, o) ==
    [IDF |-> id, CreatedF |-> t, AccessedF |-> t + 1,
     TimeoutF |-> IF o.Timeout = 0 THEN DefaultTimeout ELSE o.Timeout,
     AttrsF |-> o.Attrs, CAttrsF |-> o.CAttrs]
NewSessionValue(id, t, o) ==
    [IDF |-> id, CreatedF |-> t, AccessedF |-> t,
     TimeoutF |-> IF o.Timeout = 0 THEN DefaultTimeout ELSE o.Timeout,
     AttrsF |-> o.Attrs, CAttrsF |-> o.CAttrs]

\* Session.New()
IsNew(s) == sess[s].CreatedF = sess[s].AccessedF

\* The cleaner's predicate: now.Sub(sess.Accessed()) > sess.Timeout()
\* (with faulty variants, one too slow, one too eager and one that tests
\* nothing, that the properties of the sweep must tell from it)
TimedOutAny(t, accessed, timeout) == TRUE
TimedOutLate(t, accessed, timeout) == t - accessed > timeout + 1
TimedOutGeq(t, accessed, timeout) == t - accessed >= timeout
TimedOut(t, accessed, timeout) == t - accessed > timeout

\* ------------------------------------------------------ CookieManager
\* The zero CookieManager: no manager has been constructed.
NoMngr == [sessIDCookieName |-> "", cookieSecure |-> FALSE,
           cookieMaxAgeSec |-> 0, cookiePath |-> ""]

\* CookieMngrOptions values (CookieMaxAge in milliseconds): the zero
\* options, the options of TestGlobal with a name and a path, and a max age
\* below one second.
CookieMngrOptions ==
    { [SessIDCookieName |-> "", AllowHTTP |-> FALSE, CookieMaxAge |-> 0,
       CookiePath |-> ""],
      [SessIDCookieName |-> "sid", AllowHTTP |-> TRUE, CookieMaxAge |-> 3600000,
       CookiePath |-> "/app"],
      [SessIDCookieName |-> "tok", AllowHTTP |-> FALSE, CookieMaxAge |-> 500,
       CookiePath |-> ""] }

\* 30 * 24 * 60 * 60, the default max age in seconds
DefaultCookieMaxAgeSec == 2592000

\* The CookieManager NewCookieManagerOptions builds from options o;
\* int(o.CookieMaxAge.Seconds()) drops the fraction of a second.
\* (NewCookieManagerValueRaw is a faulty variant: the options as they are,
\* with no default and the max age in its own unit)
NewCookieManagerValueRaw(o) ==
    [sessIDCookieName |-> o.SessIDCookieName, cookieSecure |-> ~o.AllowHTTP,
     cookieMaxAgeSec |-> o.CookieMaxAge, cookiePath |-> o.CookiePath]
NewCookieManagerValue(o) ==
    [sessIDCookieName |-> IF o.SessIDCookieName = "" THEN "sessid"
                          ELSE o.SessIDCookieName,
     cookieSecure |-> ~o.AllowHTTP,
     cookieMaxAgeSec |-> IF o.CookieMaxAge = 0 THEN DefaultCookieMaxAgeSec
                         ELSE o.CookieMaxAge \div 1000,
     cookiePath |-> IF o.CookiePath = "" THEN "/" ELSE o.CookiePath]

\* r.Cookie(name) found no cookie (err != nil)
NoCookie == [Name |-> "", Value |-> ""]

\* The maps a goroutine holds outside the sessions: o, the options it builds
\* and passes to NewSessionOptions, and m, the map an Attrs() call returned
\* to it (kept says there is one).  alias names those of its maps that are
\* the very map object of a session's field: <<"Attrs", s>> when o.Attrs is
\* the AttrsF map of s, <<"CAttrs", s>> when o.CAttrs is its CAttrsF map,
\* <<"m", s>> when m is its AttrsF map.  History: made is the cell the
\* goroutine constructed, given the options as they were at that call, and
\* dirty the maps the goroutine wrote to since (for m: since Attrs returned).
NoHeld == [o |-> [Timeout |-> 0, Attrs |-> EmptyMap, CAttrs |-> EmptyMap],
           m |-> EmptyMap, kept |-> FALSE, alias |-> {},
           made |-> Nil, given |-> [Timeout |-> 0, Attrs |-> EmptyMap,
                                    CAttrs |-> EmptyMap],
           dirty |-> {}]

\* ------------------------------------------------------------ threads
\* t0 is history: the instant of the call.  afterRm is history: the Get was
\* called after a Remove of its id returned, and no Add of that id has been
\* called since.
IdleTh == [pc |-> "idle", op |-> "", id |-> Nil, s |-> Nil, t0 |-> 0, tnow |-> 0,
           afterRm |-> FALSE, nm |-> Nil, v |-> Nil, m |-> EmptyMap]
IdleCl == [pc |-> "select", now |-> 0, todo |-> {}, logged |-> {}]

Init ==
    /\ now = 0
    /\ sess = [s \in Refs |-> NoSess]
    /\ smux = [s \in Refs |-> FreeMux]
    /\ sessions = [i \in Ids |-> Nil]
    /\ mux = FreeMux
    /\ closeTicker = FALSE
    /\ tickerOn = TRUE
    /\ tickerC = << >>
    /\ cl = IdleCl
    /\ th = [p \in Procs |-> IdleTh]
    /\ removed = {}
    /\ lin = [s \in Refs |-> EmptyMap]
    /\ addedAt = [i \in Ids |-> -1]
    /\ mngr = NoMngr
    /\ jar = {}
    /\ req = [p \in Procs |-> << >>]
    /\ resp = [p \in Procs |-> << >>]
    /\ held = [p \in Procs |-> NoHeld]

\* The keys of the map.
Present == {i \in Ids : sessions[i] # Nil}

\* -------------------------------------------------------------- clock
\* The clock advances by one unit; the ticker sends the new instant on
\* ticker.C when it is a multiple of the interval, and drops the tick when
\* the channel is full.
Tick(last) ==
    /\ now < last
    /\ now' = now + 1
    /\ tickerC' = IF tickerOn /\ (now + 1) % SessCleanerInterval = 0
                              /\ tickerC = << >>
                  THEN <<now + 1>> ELSE tickerC
    /\ UNCHANGED <<sess, smux, sessions, mux, closeTicker, tickerOn, cl, th,
                   removed, lin, addedAt,
                   mngr, jar, req, resp, held>>

\* The clock moves at any moment, whatever the goroutines are doing.
AdvanceTime == Tick(MaxTime)

\* -------------------------------------------------- NewSessionOptions
\* The heap hands out its cells in order.
Before(r, s) == r = "s1" /\ s = "s2"

\* genID: a random id.  The first session's id is called "a"; the second
\* one draws the same id or another one.
GenID(s) == IF s = "s1" THEN {"a"} ELSE Ids

NewSessionOptions(p, s, options) ==
    /\ th[p].pc = "idle"
    /\ ~Live(s)
    /\ \A r \in Refs : Before(r, s) => Live(r)
    /\ \E id \in GenID(s), o \in options :
          /\ sess' = [sess EXCEPT ![s] = NewSessionValue(id, now, o)]
          /\ lin' = [lin EXCEPT ![s] = o.Attrs]
    /\ UNCHANGED <<now, smux, sessions, mux, closeTicker, tickerOn, tickerC,
                   cl, th, removed, addedAt,
                   mngr, jar, req, resp, held>>

\* What io.ReadFull(rand.Reader, r) can do to the zeroed slice r: fill it,
\* fill a part of it and fail, or fail at once.  genID drops the error.
Reads == {"full", "short", "none"}

\* genID with that outcome: base64 of r, which is a random id when r was
\* filled, an id that ends in zero bytes (the letter A) when it was filled in
\* part, and the id of zero bytes alone when it was not filled.
GenIDRead(s, read) ==
    IF read = "full" THEN GenID(s)
    ELSE IF read = "short" THEN {"aAAA"} ELSE {"AAAA"}

\* NewSessionOptions(o), with the outcome of the read of the random source
NewSessionOptionsRead(p, s, options, read) ==
    /\ th[p].pc = "idle"
    /\ ~Live(s)
    /\ \A r \in Refs : Before(r, s) => Live(r)
    /\ \E id \in GenIDRead(s, read), o \in options :
          /\ sess' = [sess EXCEPT ![s] = NewSessionValue(id, now, o)]
          /\ lin' = [lin EXCEPT ![s] = o.Attrs]
    /\ UNCHANGED <<now, smux, sessions, mux, closeTicker, tickerOn, tickerC,
                   cl, th, removed, addedAt,
                   mngr, jar, req, resp, held>>

\* new(SessOptions), the options of NewSession()
ZeroSessOptions == [Timeout |-> 0, Attrs |-> EmptyMap, CAttrs |-> EmptyMap]

\* NewSession(): NewSessionOptions(zeroSessOptions)
NewSession(p, s) == NewSessionOptions(p, s, {ZeroSessOptions})

\* Access() is called on the session itself, not through the store's Get
AccessCall(p, s) ==
    /\ th[p].pc = "idle"
    /\ Live(s)
    /\ th' = [th EXCEPT ![p] = [IdleTh EXCEPT !.pc = "acc_lock", !.op = "Access",
                                              !.s = s, !.t0 = now]]
    /\ UNCHANGED <<now, sess, smux, sessions, mux, closeTicker, tickerOn,
                   tickerC, cl, removed, lin, addedAt, mngr, jar, req, resp,
                   held>>

\* -------------------------------------------------------- inMemStore.Get
GetCall(p, id) ==
    /\ th[p].pc = "idle"
    /\ th' = [th EXCEPT ![p] = [IdleTh EXCEPT !.pc = "get_rlock", !.op = "Get",
                                              !.id = id, !.t0 = now,
                                              !.afterRm = id \in removed]]
    /\ UNCHANGED <<now, sess, smux, sessions, mux, closeTicker, tickerOn,
                   tickerC, cl, removed, lin, addedAt,
                   mngr, jar, req, resp, held>>

\* sess := s.sessions[id]
\* (faulty variants: GetLookupStale finds a session with that id whether the
\* map has it or not, GetLookupCopy some session with the id the map has)
GetLookupStale(id) ==
    IF \E r \in Refs : sess[r].IDF = id
    THEN CHOOSE r \in Refs : sess[r].IDF = id ELSE Nil
GetLookupCopy(id) ==
    IF sessions[id] = Nil THEN Nil ELSE CHOOSE r \in Refs : sess[r].IDF = id
\* (GetLookupFresh is one more: a lookup that leaves out a session that has
\* been idle for longer than its timeout)
GetLookupFresh(id) ==
    IF sessions[id] # Nil
       /\ TimedOut(now, sess[sessions[id]].AccessedF, sess[sessions[id]].TimeoutF)
    THEN Nil ELSE sessions[id]
GetLookupValue(id) == sessions[id]

\* s.mux.RLock(), and the lookup
GetRLock(p) ==
    /\ th[p].pc = "get_rlock"
    /\ CanRLock(mux)
    /\ mux' = DoRLock(mux, p)
    /\ LET found == GetLookupValue(th[p].id) IN
       th' = [th EXCEPT ![p].s = found,
                        ![p].pc = IF found = Nil THEN "get_ret" ELSE "acc_lock"]
    /\ UNCHANGED <<now, sess, smux, sessions, closeTicker, tickerOn, tickerC,
                   cl, removed, lin, addedAt,
                   mngr, jar, req, resp, held>>

\* The mutex sess.Access() takes is the receiver's own, s.mux
\* (AccessLockShared is a faulty variant: one mutex for all the sessions)
AccessLockShared(p) == "s1"
AccessLock(p) == th[p].s

\* sess.Access(): s.mux.Lock(), first half
AccessAnnounce(p) ==
    /\ th[p].pc = "acc_lock"
    /\ CanAnnounce(smux[AccessLock(p)])
    /\ smux' = [smux EXCEPT ![AccessLock(p)] = DoAnnounce(@, p)]
    /\ th' = [th EXCEPT ![p].pc = "acc_drain"]
    /\ UNCHANGED <<now, sess, sessions, mux, closeTicker, tickerOn, tickerC,
                   cl, removed, lin, addedAt,
                   mngr, jar, req, resp, held>>

\* time.Now() of Access() is evaluated once the lock is held
\* (AccessInstantCall is a faulty variant: the clock is read before the lock
\* is asked for)
AccessInstantCall(p) == th[p].t0
AccessInstant(p) == now

\* sess.Access(): s.mux.Lock(), second half; then time.Now() is read
AccessNow(p) ==
    /\ th[p].pc = "acc_drain"
    /\ Drained(smux[AccessLock(p)])
    /\ th' = [th EXCEPT ![p].pc = "acc_write", ![p].tnow = AccessInstant(p)]
    /\ UNCHANGED <<now, sess, smux, sessions, mux, closeTicker, tickerOn,
                   tickerC, cl, removed, lin, addedAt,
                   mngr, jar, req, resp, held>>

\* s.AccessedF = time.Now(), with the instant t that time.Now() returned
\* (with faulty variants: no write, a write of the creation time, a write
\* that also moves the creation time)
AccessValueNone(v, t) == v
AccessValueStale(v, t) == [v EXCEPT !.AccessedF = v.CreatedF]
AccessValueCreated(v, t) == [v EXCEPT !.AccessedF = t, !.CreatedF = t]
AccessValue(v, t) == [v EXCEPT !.AccessedF = t]

\* the assignment, and the deferred s.mux.Unlock(); Access returns into Get,
\* or to the caller that called it on the session itself
AccessWrite(p) ==
    /\ th[p].pc = "acc_write"
    /\ sess' = [sess EXCEPT ![th[p].s] = AccessValue(@, th[p].tnow)]
    /\ smux' = [smux EXCEPT ![AccessLock(p)] = DoUnlock(@)]
    /\ th' = IF th[p].op = "Get"
             THEN [th EXCEPT ![p].pc = "get_ret"]
             ELSE [th EXCEPT ![p] = IdleTh]
    /\ UNCHANGED <<now, sessions, mux, closeTicker, tickerOn, tickerC, cl,
                   removed, lin, addedAt,
                   mngr, jar, req, resp, held>>

\* return sess (or nil); deferred s.mux.RUnlock()
GetReturn(p) ==
    /\ th[p].pc = "get_ret"
    /\ mux' = DoRUnlock(mux, p)
    /\ th' = [th EXCEPT ![p] = IdleTh]
    /\ UNCHANGED <<now, sess, smux, sessions, closeTicker, tickerOn, tickerC,
                   cl, removed, lin, addedAt,
                   mngr, jar, req, resp, held>>

\* ------------------------------------------- inMemStore.Add / Remove
\* Add(sess) is called by a goroutine at position at: s.mux.Lock(), first half
AddCallFrom(p, s, at) ==
    /\ th[p].pc = at
    /\ Live(s)
    /\ CanAnnounce(mux)
    /\ mux' = DoAnnounce(mux, p)
    /\ th' = [q \in Procs |->
                IF q = p
                THEN [IdleTh EXCEPT !.pc = "w_drain", !.op = "Add", !.s = s]
                ELSE IF th[q].id = sess[s].IDF
                     THEN [th[q] EXCEPT !.afterRm = FALSE] ELSE th[q]]
    /\ removed' = removed \ {sess[s].IDF}
    /\ UNCHANGED <<now, sess, smux, sessions, closeTicker, tickerOn, tickerC,
                   cl, lin, addedAt,
                   mngr, jar, req, resp, held>>

\* Add(sess) called on the store itself
AddCall(p, s) == th[p].pc = "idle" /\ AddCallFrom(p, s, "idle")

\* Remove(sess) is called by a goroutine at position at: s.mux.Lock(), first half
RemoveCallFrom(p, s, at) ==
    /\ th[p].pc = at
    /\ Live(s)
    /\ CanAnnounce(mux)
    /\ mux' = DoAnnounce(mux, p)
    /\ th' = [th EXCEPT ![p] = [IdleTh EXCEPT !.pc = "w_drain", !.op = "Remove",
                                              !.s = s]]
    /\ UNCHANGED <<now, sess, smux, sessions, closeTicker, tickerOn, tickerC,
                   cl, removed, lin, addedAt,
                   mngr, jar, req, resp, held>>

\* Remove(sess) called on the store itself
RemoveCall(p, s) == th[p].pc = "idle" /\ RemoveCallFrom(p, s, "idle")

\* s.mux.Lock(), second half
WriteLocked(p) ==
    /\ th[p].pc = "w_drain"
    /\ Drained(mux)
    /\ th' = [th EXCEPT ![p].pc = "w_body"]
    /\ UNCHANGED <<now, sess, smux, sessions, mux, closeTicker, tickerOn,
                   tickerC, cl, removed, lin, addedAt,
                   mngr, jar, req, resp, held>>

\* s.sessions[sess.ID()] = sess
\* (faulty variants: AddEntryKeep keeps an entry the map has under the id,
\* AddEntryOther stores the session under another key)
AddEntryOther(m, s) == [m EXCEPT ![CHOOSE i \in Ids : i # sess[s].IDF] = s]
AddEntryKeep(m, s) == IF m[sess[s].IDF] # Nil THEN m ELSE [m EXCEPT ![sess[s].IDF] = s]
AddEntry(m, s) == [m EXCEPT ![sess[s].IDF] = s]

\* delete(s.sessions, sess.ID())
\* (faulty variants: RemoveEntryNone deletes nothing, RemoveEntryAll
\* every entry)
RemoveEntryNone(m, s) == m
RemoveEntryAll(m, s) == [i \in Ids |-> Nil]
RemoveEntry(m, s) == [m EXCEPT ![sess[s].IDF] = Nil]

\* the body of Add, and the deferred s.mux.Unlock()
AddStep(p) ==
    /\ th[p].pc = "w_body"
    /\ th[p].op = "Add"
    /\ sessions' = AddEntry(sessions, th[p].s)
    /\ mux' = DoUnlock(mux)
    /\ th' = [th EXCEPT ![p] = IdleTh]
    /\ UNCHANGED <<now, sess, smux, closeTicker, tickerOn, tickerC, cl,
                   removed, lin, mngr, jar, req, resp, held>>

AddBody(p) == AddStep(p) /\ UNCHANGED addedAt

\* the same step, with the instant of the Add recorded
AddBodyTimed(p) ==
    AddStep(p) /\ addedAt' = [addedAt EXCEPT ![sess[th[p].s].IDF] = now]

\* the body of Remove, and the deferred s.mux.Unlock()
RemoveBody(p) ==
    /\ th[p].pc = "w_body"
    /\ th[p].op = "Remove"
    /\ sessions' = RemoveEntry(sessions, th[p].s)
    /\ mux' = DoUnlock(mux)
    /\ th' = [th EXCEPT ![p] = IdleTh]
    /\ removed' = removed \cup {sess[th[p].s].IDF}
    /\ UNCHANGED <<now, sess, smux, closeTicker, tickerOn, tickerC, cl, lin, addedAt,
                   mngr, jar, req, resp, held>>

\* ------------------------------------------------------ inMemStore.Close
\* Where the caller of close(s.closeTicker) is afterwards: closing a closed
\* channel panics
\* (ClosePcIdempotent is a faulty variant: a second close returns)
ClosePcIdempotent(closed) == "idle"
ClosePc(closed) == IF closed THEN "panic" ELSE "idle"

\* close(s.closeTicker): closing a closed channel panics
StoreClose(p) ==
    /\ th[p].pc = "idle"
    /\ th' = [th EXCEPT ![p].pc = ClosePc(closeTicker),
                        ![p].op = IF ClosePc(closeTicker) = "panic" THEN "Close" ELSE ""]
    /\ closeTicker' = TRUE
    /\ UNCHANGED <<now, sess, smux, sessions, mux, tickerOn, tickerC, cl,
                   removed, lin, addedAt,
                   mngr, jar, req, resp, held>>

\* ------------------------------------------------ inMemStore.sessCleaner
\* return, out of the for loop: the goroutine ends
\* (CleanerBreak is a faulty variant: only the select is left, as a break
\* would do, and the loop goes on)
CleanerBreak(c) == c
CleanerReturn(c) == [c EXCEPT !.pc = "done"]

\* select, case <-s.closeTicker: ticker.Stop(); return
CleanerShutdown ==
    /\ cl.pc = "select"
    /\ closeTicker
    /\ tickerOn' = FALSE
    /\ cl' = CleanerReturn(cl)
    /\ UNCHANGED <<now, sess, smux, sessions, mux, closeTicker, tickerC, th,
                   removed, lin, addedAt,
                   mngr, jar, req, resp, held>>

\* select, case now := <-ticker.C
CleanerTick ==
    /\ cl.pc = "select"
    /\ tickerC # << >>
    /\ tickerC' = << >>
    /\ cl' = [cl EXCEPT !.pc = "r_rlock", !.now = Head(tickerC)]
    /\ UNCHANGED <<now, sess, smux, sessions, mux, closeTicker, tickerOn, th,
                   removed, lin, addedAt,
                   mngr, jar, req, resp, held>>

\* needRemove: s.mux.RLock(); the range loop starts over the keys of the map
ReadScanRLock ==
    /\ cl.pc = "r_rlock"
    /\ CanRLock(mux)
    /\ mux' = DoRLock(mux, CL)
    /\ cl' = [cl EXCEPT !.pc = "r_next", !.todo = Present]
    /\ UNCHANGED <<now, sess, smux, sessions, closeTicker, tickerOn, tickerC,
                   th, removed, lin, addedAt,
                   mngr, jar, req, resp, held>>

\* the deferred s.mux.RUnlock() of needRemove
\* (ScanReleaseNone is a faulty variant: the read lock is kept)
ScanReleaseNone(m) == m
ScanRelease(m) == DoRUnlock(m, CL)

\* now, as both closures of a sweep see it: the variable that took the value
\* received from ticker.C
\* (ScanNowClock is a faulty variant: the clock is read at every test)
ScanNowClock(c) == now
ScanNow(c) == c.now

\* sess.Accessed(): RLock, read AccessedF, RUnlock.  It waits while a writer
\* holds or has announced itself on the session's mutex.
\* (CanReadAccessedAny is a faulty variant: the field is read without the lock)
CanReadAccessedAny(s) == TRUE
CanReadAccessed(s) == CanRLock(smux[s])

\* needRemove, one turn of the range loop: the loop is over (return false,
\* the deferred RUnlock, continue), or the next entry is tested and the
\* function returns true (the deferred RUnlock) when it has timed out.
ReadScanNext ==
    /\ cl.pc = "r_next"
    /\ IF cl.todo = {}
       THEN /\ mux' = ScanRelease(mux)
            /\ cl' = IdleCl
       ELSE \E i \in cl.todo :
              LET s == sessions[i] IN
              /\ CanReadAccessed(s)
              /\ IF TimedOut(ScanNow(cl), sess[s].AccessedF, sess[s].TimeoutF)
                 THEN /\ mux' = ScanRelease(mux)
                      /\ cl' = [cl EXCEPT !.pc = "w_lock", !.todo = {}]
                 ELSE /\ mux' = mux
                      /\ cl' = [cl EXCEPT !.todo = @ \ {i}]
    /\ UNCHANGED <<now, sess, smux, sessions, closeTicker, tickerOn, tickerC,
                   th, removed, lin, addedAt,
                   mngr, jar, req, resp, held>>

\* the removing closure: s.mux.Lock(), first half
SweepAnnounce ==
    /\ cl.pc = "w_lock"
    /\ CanAnnounce(mux)
    /\ mux' = DoAnnounce(mux, CL)
    /\ cl' = [cl EXCEPT !.pc = "w_drain"]
    /\ UNCHANGED <<now, sess, smux, sessions, closeTicker, tickerOn, tickerC,
                   th, removed, lin, addedAt,
                   mngr, jar, req, resp, held>>

\* the removing closure: s.mux.Lock(), second half; the range loop starts
SweepLocked ==
    /\ cl.pc = "w_drain"
    /\ Drained(mux)
    /\ cl' = [cl EXCEPT !.pc = "w_next", !.todo = Present]
    /\ UNCHANGED <<now, sess, smux, sessions, mux, closeTicker, tickerOn,
                   tickerC, th, removed, lin, addedAt,
                   mngr, jar, req, resp, held>>

\* What the range loop of the removing closure has left to visit after it
\* deleted the entry of key i: every other key
\* (SweepRestStop is a faulty variant: the loop ends at the first delete)
SweepRestStop(todo, i) == {}
SweepRest(todo, i) == todo \ {i}

\* the removing closure, one turn of the range loop: the loop is over (the
\* deferred Unlock), or the next entry is tested, and logged and deleted
\* when it has timed out.
SweepNext ==
    /\ cl.pc = "w_next"
    /\ IF cl.todo = {}
       THEN /\ mux' = DoUnlock(mux)
            /\ cl' = IdleCl
            /\ sessions' = sessions
       ELSE \E i \in cl.todo :
              LET s == sessions[i] IN
              /\ CanReadAccessed(s)
              /\ mux' = mux
              /\ IF TimedOut(ScanNow(cl), sess[s].AccessedF, sess[s].TimeoutF)
                 THEN /\ sessions' = RemoveEntry(sessions, s)
                      /\ cl' = [cl EXCEPT !.todo = SweepRest(@, i),
                                          !.logged = @ \cup {sess[s].IDF}]
                 ELSE /\ sessions' = sessions
                      /\ cl' = [cl EXCEPT !.todo = @ \ {i}]
    /\ UNCHANGED <<now, sess, smux, closeTicker, tickerOn, tickerC, th, removed, lin, addedAt,
                   mngr, jar, req, resp, held>>

Cleaner ==
    \/ CleanerShutdown
    \/ CleanerTick
    \/ ReadScanRLock
    \/ ReadScanNext
    \/ SweepAnnounce
    \/ SweepLocked
    \/ SweepNext

\* ------------------------------------- sessionImpl.Attr / SetAttr / Attrs
\* s.AttrsF[name] read: nil when the name is absent
AttrValue(m, n) == IF n \in DOMAIN m THEN m[n] ELSE Nil

\* delete(s.AttrsF, name) when value == nil, else s.AttrsF[name] = value
SetAttrValue(m, n, v) ==
    IF v = Nil
    THEN [k \in DOMAIN m \ {n} |-> m[k]]
    ELSE [k \in DOMAIN m \cup {n} |-> IF k = n THEN v ELSE m[k]]

\* Attr(name) is called: s.mux.RLock()
AttrCall(p, s, n) ==
    /\ th[p].pc = "idle"
    /\ Live(s)
    /\ CanRLock(smux[s])
    /\ smux' = [smux EXCEPT ![s] = DoRLock(@, p)]
    /\ th' = [th EXCEPT ![p] = [IdleTh EXCEPT !.pc = "at_read", !.op = "Attr",
                                              !.s = s, !.nm = n]]
    /\ UNCHANGED <<now, sess, sessions, mux, closeTicker, tickerOn, tickerC,
                   cl, removed, lin, addedAt,
                   mngr, jar, req, resp, held>>

\* return s.AttrsF[name], and the deferred s.mux.RUnlock()
AttrRead(p) ==
    /\ th[p].pc = "at_read"
    /\ smux' = [smux EXCEPT ![th[p].s] = DoRUnlock(@, p)]
    /\ th' = [th EXCEPT ![p] = [IdleTh EXCEPT !.pc = "at_ret", !.op = "Attr",
                                   !.s = th[p].s, !.nm = th[p].nm,
                                   !.v = AttrValue(sess[th[p].s].AttrsF, th[p].nm)]]
    /\ UNCHANGED <<now, sess, sessions, mux, closeTicker, tickerOn, tickerC,
                   cl, removed, lin, addedAt,
                   mngr, jar, req, resp, held>>

\* Attrs() is called: s.mux.RLock()
AttrsCall(p, s) ==
    /\ th[p].pc = "idle"
    /\ Live(s)
    /\ CanRLock(smux[s])
    /\ smux' = [smux EXCEPT ![s] = DoRLock(@, p)]
    /\ th' = [th EXCEPT ![p] = [IdleTh EXCEPT !.pc = "as_read", !.op = "Attrs",
                                              !.s = s]]
    /\ UNCHANGED <<now, sess, sessions, mux, closeTicker, tickerOn, tickerC,
                   cl, removed, lin, addedAt,
                   mngr, jar, req, resp, held>>

\* the copy loop, return m, and the deferred s.mux.RUnlock()
AttrsRead(p) ==
    /\ th[p].pc = "as_read"
    /\ smux' = [smux EXCEPT ![th[p].s] = DoRUnlock(@, p)]
    /\ th' = [th EXCEPT ![p] = [IdleTh EXCEPT !.pc = "as_ret", !.op = "Attrs",
                                   !.s = th[p].s,
                                   !.m = [k \in DOMAIN sess[th[p].s].AttrsF |->
                                             sess[th[p].s].AttrsF[k]]]]
    /\ UNCHANGED <<now, sess, sessions, mux, closeTicker, tickerOn, tickerC,
                   cl, removed, lin, addedAt,
                   mngr, jar, req, resp, held>>

\* the caller has taken the result of Attr or Attrs
AttrDone(p) ==
    /\ th[p].pc \in {"at_ret", "as_ret"}
    /\ th' = [th EXCEPT ![p] = IdleTh]
    /\ UNCHANGED <<now, sess, smux, sessions, mux, closeTicker, tickerOn,
                   tickerC, cl, removed, lin, addedAt,
                   mngr, jar, req, resp, held>>

\* s.mux.Lock() of SetAttr, first half: what it does to the mutex
\* (SetAttrAcquireNone is a faulty variant: no lock is taken)
SetAttrAcquireNone(m, p) == m
SetAttrAcquire(m, p) == DoAnnounce(m, p)

\* SetAttr(name, value) is called: s.mux.Lock(), first half
SetAttrCall(p, s, n, v) ==
    /\ th[p].pc = "idle"
    /\ Live(s)
    /\ CanAnnounce(smux[s])
    /\ smux' = [smux EXCEPT ![s] = SetAttrAcquire(@, p)]
    /\ th' = [th EXCEPT ![p] = [IdleTh EXCEPT !.pc = "sa_drain", !.op = "SetAttr",
                                              !.s = s, !.nm = n, !.v = v]]
    /\ UNCHANGED <<now, sess, sessions, mux, closeTicker, tickerOn, tickerC,
                   cl, removed, lin, addedAt,
                   mngr, jar, req, resp, held>>

\* s.mux.Lock(), second half.  The order in which the SetAttr calls get the
\* lock is the order lin applies them in.
SetAttrLocked(p) ==
    /\ th[p].pc = "sa_drain"
    /\ Drained(smux[th[p].s])
    /\ th' = [th EXCEPT ![p].pc = "sa_write"]
    /\ lin' = [lin EXCEPT ![th[p].s] = SetAttrValue(@, th[p].nm, th[p].v)]
    /\ UNCHANGED <<now, sess, smux, sessions, mux, closeTicker, tickerOn,
                   tickerC, cl, removed, addedAt,
                   mngr, jar, req, resp, held>>

\* The map write starts: a Go map write is not atomic, it works on the map
\* as it finds it.
SetAttrBegin(p) ==
    /\ th[p].pc = "sa_write"
    /\ th' = [th EXCEPT ![p].pc = "sa_store", ![p].m = sess[th[p].s].AttrsF]
    /\ UNCHANGED <<now, sess, smux, sessions, mux, closeTicker, tickerOn,
                   tickerC, cl, removed, lin, addedAt,
                   mngr, jar, req, resp, held>>

\* The map write ends, and the deferred s.mux.Unlock()
SetAttrStore(p) ==
    /\ th[p].pc = "sa_store"
    /\ sess' = [sess EXCEPT ![th[p].s].AttrsF =
                               SetAttrValue(th[p].m, th[p].nm, th[p].v)]
    /\ smux' = [smux EXCEPT ![th[p].s] = DoUnlock(@)]
    /\ th' = [th EXCEPT ![p] = IdleTh]
    /\ UNCHANGED <<now, sessions, mux, closeTicker, tickerOn, tickerC, cl,
                   removed, lin, addedAt,
                   mngr, jar, req, resp, held>>

\* The calls a request goroutine can make on the sessions of cells.
AttrCalls(p, cells) ==
    \/ \E s \in cells, n \in Names : AttrCall(p, s, n)
    \/ \E s \in cells : AttrsCall(p, s)
    \/ \E s \in cells, n \in Names, v \in Values \cup {Nil} : SetAttrCall(p, s, n, v)

\* The steps of a request goroutine inside Attr, Attrs and SetAttr.
AttrProgress(p) ==
    \/ AttrRead(p)
    \/ AttrsRead(p)
    \/ AttrDone(p)
    \/ SetAttrLocked(p)
    \/ SetAttrBegin(p)
    \/ SetAttrStore(p)

\* ------------------------------------------ the caller's own maps
\* CAttr(name): return s.CAttrsF[name], no lock
CAttr(p, s, n) ==
    /\ th[p].pc = "idle"
    /\ Live(s)
    /\ th' = [th EXCEPT ![p] = [IdleTh EXCEPT !.pc = "ca_ret", !.op = "CAttr",
                                   !.s = s, !.nm = n,
                                   !.v = AttrValue(sess[s].CAttrsF, n)]]
    /\ UNCHANGED <<now, sess, smux, sessions, mux, closeTicker, tickerOn,
                   tickerC, cl, removed, lin, addedAt,
                   mngr, jar, req, resp, held>>

\* the caller has taken the result of CAttr
CAttrDone(p) ==
    /\ th[p].pc = "ca_ret"
    /\ th' = [th EXCEPT ![p] = IdleTh]
    /\ UNCHANGED <<now, sess, smux, sessions, mux, closeTicker, tickerOn,
                   tickerC, cl, removed, lin, addedAt,
                   mngr, jar, req, resp, held>>

\* The caller fills in the options it is going to pass.
MakeOptions(p, o) ==
    /\ th[p].pc = "idle"
    /\ held[p] = NoHeld
    /\ o # NoHeld.o
    /\ held' = [held EXCEPT ![p].o = o]
    /\ UNCHANGED <<now, sess, smux, sessions, mux, closeTicker, tickerOn,
                   tickerC, cl, th, removed, lin, addedAt,
                   mngr, jar, req, resp>>

\* Which of the caller's maps the new session s refers to: none, AttrsF is
\* made anew and filled by a loop over o.Attrs, and so is CAttrsF when
\* o.CAttrs has entries (it stays nil otherwise)
\* (NewSessionAliasBoth is a faulty variant: the session keeps o's maps)
NewSessionAliasBoth(s) == {<<"Attrs", s>>, <<"CAttrs", s>>}
NewSessionAlias(s) == {}

\* NewSessionOptions(o) with the options the caller holds
NewSessionOptionsHeld(p, s) ==
    /\ th[p].pc = "idle"
    /\ ~Live(s)
    /\ \A r \in Refs : Before(r, s) => Live(r)
    /\ held[p].made = Nil
    /\ \E id \in GenID(s) :
          sess' = [sess EXCEPT ![s] = NewSessionValue(id, now, held[p].o)]
    /\ lin' = [lin EXCEPT ![s] = held[p].o.Attrs]
    /\ held' = [held EXCEPT ![p].made = s, ![p].given = held[p].o,
                            ![p].alias = @ \cup NewSessionAlias(s),
                            ![p].dirty = @ \ {"Attrs", "CAttrs"}]
    /\ UNCHANGED <<now, smux, sessions, mux, closeTicker, tickerOn, tickerC,
                   cl, th, removed, addedAt,
                   mngr, jar, req, resp>>

\* Which map the caller gets from Attrs() on s: m is made anew and filled by
\* a loop over s.AttrsF, so it is not the map of s
\* (AttrsAliasMap is a faulty variant: return s.AttrsF)
AttrsAliasMap(s) == {<<"m", s>>}
AttrsAlias(s) == {}

\* m := sess.Attrs(): the caller keeps the map that Attrs returned
AttrsKeep(p) ==
    /\ th[p].pc = "as_ret"
    /\ th' = [th EXCEPT ![p] = IdleTh]
    /\ held' = [held EXCEPT ![p].m = th[p].m, ![p].kept = TRUE,
                            ![p].alias = {a \in @ : a[1] # "m"}
                                            \cup AttrsAlias(th[p].s),
                            ![p].dirty = @ \ {"m"}]
    /\ UNCHANGED <<now, sess, smux, sessions, mux, closeTicker, tickerOn,
                   tickerC, cl, removed, lin, addedAt,
                   mngr, jar, req, resp>>

\* The field of a session that one of the caller's maps can be.
HeldField(var) == IF var = "CAttrs" THEN "CAttrsF" ELSE "AttrsF"

\* The map the caller calls var.
HeldMap(h, var) ==
    IF var = "m" THEN h.m ELSE IF var = "Attrs" THEN h.o.Attrs ELSE h.o.CAttrs

\* The caller writes to a map it holds: var[n] = v, or delete(var, n) with
\* nil for v.  A Go map is a reference: the write is seen through every
\* variable that is the same map, a session's field included.
HeldSet(p, var, n, v) ==
    /\ th[p].pc = "idle"
    /\ var = "m" => held[p].kept
    /\ SetAttrValue(HeldMap(held[p], var), n, v) # HeldMap(held[p], var)
    /\ held' = [held EXCEPT
                  ![p].m = IF var = "m" THEN SetAttrValue(@, n, v) ELSE @,
                  ![p].o.Attrs = IF var = "Attrs" THEN SetAttrValue(@, n, v) ELSE @,
                  ![p].o.CAttrs = IF var = "CAttrs" THEN SetAttrValue(@, n, v) ELSE @,
                  ![p].dirty = @ \cup {var}]
    /\ sess' = [s \in Refs |->
                  IF <<var, s>> \in held[p].alias
                  THEN [sess[s] EXCEPT ![HeldField(var)] = SetAttrValue(@, n, v)]
                  ELSE sess[s]]
    /\ UNCHANGED <<now, smux, sessions, mux, closeTicker, tickerOn, tickerC,
                   cl, th, removed, lin, addedAt,
                   mngr, jar, req, resp>>

\* ------------------------------------------------------ CookieManager
NewCookieManagerOptions(o) ==
    /\ mngr = NoMngr
    /\ mngr' = NewCookieManagerValue(o)
    /\ UNCHANGED <<now, sess, smux, sessions, mux, closeTicker, tickerOn,
                   tickerC, cl, th, removed, lin, addedAt, jar, req, resp, held>>

\* The http.Cookie that Add sets
\* (AddCookieScript is a faulty variant: a cookie that scripts can read)
AddCookieScript(m, id) ==
    [Name |-> m.sessIDCookieName, Value |-> id, Path |-> m.cookiePath,
     HttpOnly |-> FALSE, Secure |-> m.cookieSecure, MaxAge |-> m.cookieMaxAgeSec]
AddCookie(m, id) ==
    [Name |-> m.sessIDCookieName, Value |-> id, Path |-> m.cookiePath,
     HttpOnly |-> TRUE, Secure |-> m.cookieSecure, MaxAge |-> m.cookieMaxAgeSec]

\* The http.Cookie that Remove sets
\* (faulty variants: RemoveCookieRoot always has the root path,
\* RemoveCookieKept has the max age of Add)
RemoveCookieKept(m) ==
    [Name |-> m.sessIDCookieName, Value |-> "", Path |-> m.cookiePath,
     HttpOnly |-> TRUE, Secure |-> m.cookieSecure, MaxAge |-> m.cookieMaxAgeSec]
RemoveCookieRoot(m) ==
    [Name |-> m.sessIDCookieName, Value |-> "", Path |-> "/",
     HttpOnly |-> TRUE, Secure |-> m.cookieSecure, MaxAge |-> -1]
RemoveCookie(m) ==
    [Name |-> m.sessIDCookieName, Value |-> "", Path |-> m.cookiePath,
     HttpOnly |-> TRUE, Secure |-> m.cookieSecure, MaxAge |-> -1]

\* http.SetCookie(w, &c): one more Set-Cookie header on the response
SetCookie(h, c) == Append(h, c)

\* c, err := r.Cookie(name): the cookie of that name the request carries
\* (RequestCookieAny is a faulty variant: any cookie of the request)
RequestCookieAny(r, name) ==
    IF r = {} THEN NoCookie ELSE CHOOSE c \in r : TRUE
RequestCookie(r, name) ==
    IF \E c \in r : c.Name = name
    THEN CHOOSE c \in r : c.Name = name
    ELSE NoCookie

\* The client's jar after one Set-Cookie header: a negative MaxAge deletes
\* the cookie of that name, any other one stores it in its place.
JarAfter(j, c) ==
    IF c.MaxAge < 0
    THEN {k \in j : k.Name # c.Name}
    ELSE {k \in j : k.Name # c.Name} \cup {[Name |-> c.Name, Value |-> c.Value]}

\* ... and after all the Set-Cookie headers of a response, in order.
RECURSIVE JarApply(_, _)
JarApply(j, h) ==
    IF h = << >> THEN j ELSE JarApply(JarAfter(j, Head(h)), Tail(h))

\* The client has got a cookie from elsewhere, which is none of the manager's.
ClientOtherCookie ==
    /\ jar' = jar \cup {[Name |-> "lang", Value |-> "b"]}
    /\ jar' # jar
    /\ UNCHANGED <<now, sess, smux, sessions, mux, closeTicker, tickerOn,
                   tickerC, cl, th, removed, lin, addedAt, mngr, req, resp,
                   held>>

\* The client sends a request with the cookies of its jar, and the server
\* starts the handler in goroutine p.
ServeHTTP(p) ==
    /\ th[p].pc = "idle"
    /\ mngr # NoMngr
    /\ req[p] = << >>
    /\ req' = [req EXCEPT ![p] = <<jar>>]
    /\ resp' = [resp EXCEPT ![p] = << >>]
    /\ UNCHANGED <<now, sess, smux, sessions, mux, closeTicker, tickerOn,
                   tickerC, cl, th, removed, lin, addedAt, mngr, jar, held>>

\* The handler returns, and the client's jar takes the cookies of the response.
Respond(p) ==
    /\ th[p].pc = "idle"
    /\ req[p] # << >>
    /\ jar' = JarApply(jar, resp[p])
    /\ req' = [req EXCEPT ![p] = << >>]
    /\ resp' = [resp EXCEPT ![p] = << >>]
    /\ UNCHANGED <<now, sess, smux, sessions, mux, closeTicker, tickerOn,
                   tickerC, cl, th, removed, lin, addedAt, mngr, held>>

\* CookieManager.Get(r): return nil when the request has no session cookie,
\* else return m.store.Get(c.Value)
MngrGet(p) ==
    /\ th[p].pc = "idle"
    /\ req[p] # << >>
    /\ LET c == RequestCookie(req[p][1], mngr.sessIDCookieName) IN
       IF c = NoCookie
       THEN /\ th' = [th EXCEPT ![p] = [IdleTh EXCEPT !.pc = "mget_ret",
                                                      !.op = "Get"]]
            /\ UNCHANGED <<now, sess, smux, sessions, mux, closeTicker,
                           tickerOn, tickerC, cl, removed, lin, addedAt,
                           mngr, jar, req, resp, held>>
       ELSE GetCall(p, c.Value)

\* the return nil of CookieManager.Get
MngrGetNil(p) ==
    /\ th[p].pc = "mget_ret"
    /\ th' = [th EXCEPT ![p] = IdleTh]
    /\ UNCHANGED <<now, sess, smux, sessions, mux, closeTicker, tickerOn,
                   tickerC, cl, removed, lin, addedAt, mngr, jar, req, resp,
                   held>>

\* CookieManager.Add(sess, w): the cookie is built and set
MngrAdd(p, s) ==
    /\ th[p].pc = "idle"
    /\ req[p] # << >>
    /\ Len(resp[p]) < MaxSetCookies
    /\ Live(s)
    /\ resp' = [resp EXCEPT ![p] = SetCookie(@, AddCookie(mngr, sess[s].IDF))]
    /\ th' = [th EXCEPT ![p] = [IdleTh EXCEPT !.pc = "m_add", !.op = "Add",
                                              !.s = s]]
    /\ UNCHANGED <<now, sess, smux, sessions, mux, closeTicker, tickerOn,
                   tickerC, cl, removed, lin, addedAt, mngr, jar, req, held>>

\* CookieManager.Add: m.store.Add(sess)
MngrAddStore(p) == th[p].pc = "m_add" /\ AddCallFrom(p, th[p].s, "m_add")

\* CookieManager.Remove(sess, w): the clearing cookie is built and set
MngrRemove(p, s) ==
    /\ th[p].pc = "idle"
    /\ req[p] # << >>
    /\ Len(resp[p]) < MaxSetCookies
    /\ Live(s)
    /\ resp' = [resp EXCEPT ![p] = SetCookie(@, RemoveCookie(mngr))]
    /\ th' = [th EXCEPT ![p] = [IdleTh EXCEPT !.pc = "m_remove",
                                              !.op = "Remove", !.s = s]]
    /\ UNCHANGED <<now, sess, smux, sessions, mux, closeTicker, tickerOn,
                   tickerC, cl, removed, lin, addedAt, mngr, jar, req, held>>

\* CookieManager.Remove: m.store.Remove(sess)
MngrRemoveStore(p) ==
    th[p].pc = "m_remove" /\ RemoveCallFrom(p, th[p].s, "m_remove")

\* The calls a handler can make on the manager, with the sessions of cells.
MngrCall(p, cells) ==
    \/ \E s \in cells : NewSessionOptions(p, s, StoreOptions)
    \/ MngrGet(p)
    \/ \E s \in cells : MngrAdd(p, s)
    \/ \E s \in cells : MngrRemove(p, s)

\* The steps of a request goroutine inside Get, Remove and Add.
GetProgress(p) ==
    \/ GetRLock(p)
    \/ AccessAnnounce(p)
    \/ AccessNow(p)
    \/ AccessWrite(p)
    \/ GetReturn(p)

Progress(p) ==
    \/ GetProgress(p)
    \/ WriteLocked(p)
    \/ RemoveBody(p)
    \/ AddBody(p)

\* The steps of a handler inside a call on the manager.
MngrProgress(p) ==
    \/ MngrGetNil(p)
    \/ MngrAddStore(p)
    \/ MngrRemoveStore(p)
    \/ Progress(p)

\* The calls a request goroutine can make on the store, with the sessions
\* of cells.
Call(p, cells) ==
    \/ \E s \in cells : NewSessionOptions(p, s, StoreOptions)
    \/ \E id \in Ids : GetCall(p, id)
    \/ \E s \in cells : AddCall(p, s)
    \/ \E s \in cells : RemoveCall(p, s)
    \/ StoreClose(p)

\* Two request goroutines and the cleaner, around one session.
Next ==
    \/ AdvanceTime
    \/ Cleaner
    \/ \E p \in Procs : Call(p, {"s1"}) \/ Progress(p)

Spec == Init /\ [][Next]_vars

\* One request goroutine and the cleaner, around two sessions.
NextTwo ==
    \/ AdvanceTime
    \/ Cleaner
    \/ Call("p1", Refs) \/ Progress("p1")

SpecTwo == Init /\ [][NextTwo]_vars

\* No goroutine has a step to take: the request goroutines are between
\* calls and the cleaner waits in its select with nothing to receive.
Quiescent ==
    /\ \A p \in Procs : th[p].pc \in {"idle", "panic"}
    /\ \/ cl.pc = "done"
       \/ cl.pc = "select" /\ tickerC = << >> /\ ~closeTicker

\* The clock moves only when every goroutine has finished what it can do:
\* the steps of the program take no time on the scale of the clock.
TimedAdvance == Quiescent /\ Tick(MaxTimeTimed)

TimedProgress(p) ==
    \/ GetProgress(p)
    \/ WriteLocked(p)
    \/ RemoveBody(p)
    \/ AddBodyTimed(p)

\* Two request goroutines and the cleaner, around two sessions, with steps
\* that take no time.
NextTimed ==
    \/ TimedAdvance
    \/ Cleaner
    \/ \E p \in Procs : Call(p, {"s1"}) \/ TimedProgress(p)

SpecTimed == Init /\ [][NextTimed]_vars

\* The steps of the cleaner inside a sweep.
CleanerSweep ==
    \/ ReadScanRLock
    \/ ReadScanNext
    \/ SweepAnnounce
    \/ SweepLocked
    \/ SweepNext

\* One request goroutine and the cleaner, around one session, with the
\* scheduling Go guarantees: a goroutine inside a call keeps running and a
\* goroutine blocked on a sync.RWMutex gets it (blocked readers are woken by
\* Unlock, an announced writer stops new readers), and a select whose close
\* case is ready again and again takes it (select picks among the ready
\* cases at random).
NextLive ==
    \/ AdvanceTime
    \/ Cleaner
    \/ Call("p1", {"s1"}) \/ Progress("p1")

SpecLive ==
    /\ Init /\ [][NextLive]_vars
    /\ SF_vars(CleanerShutdown)
    /\ SF_vars(CleanerSweep)
    /\ SF_vars(Progress("p1"))

\* One goroutine that fills in options, creates a session from them, uses
\* its attributes, keeps the map Attrs() returned, and writes to the maps it
\* holds, before and after; the clock stands.
NextCopy ==
    \/ \E o \in CopyOptions : MakeOptions("p1", o)
    \/ NewSessionOptionsHeld("p1", "s1")
    \/ \E n \in Names : AttrCall("p1", "s1", n)
    \/ AttrsCall("p1", "s1")
    \/ \E v \in {"v1", Nil} : SetAttrCall("p1", "s1", "y", v)
    \/ AttrProgress("p1")
    \/ AttrsKeep("p1")
    \/ \E n \in Names : CAttr("p1", "s1", n)
    \/ CAttrDone("p1")
    \/ \E var \in {"Attrs", "CAttrs", "m"}, v \in {"v2", Nil} :
          HeldSet("p1", var, "x", v)

SpecCopy == Init /\ [][NextCopy]_vars

\* Two request goroutines that create a session with initial attributes,
\* add it to the store, get it and use its attributes; the clock stands.
NextAttr ==
    \E p \in Procs :
      \/ \E s \in {"s1"} : NewSessionOptions(p, s, AttrOptions)
      \/ \E s \in {"s1"} : AddCall(p, s)
      \/ WriteLocked(p)
      \/ AddBody(p)
      \/ \E id \in Ids : GetCall(p, id)
      \/ GetProgress(p)
      \/ AttrCalls(p, {"s1"})
      \/ AttrProgress(p)

SpecAttr == Init /\ [][NextAttr]_vars

\* Two goroutines that create a session, with the default options or with
\* options of their own, call Access on it, add it to the store and get it,
\* while the clock runs; the store's cleaner is left out.
NextSess ==
    \/ AdvanceTime
    \/ \E p \in Procs :
          \/ NewSession(p, "s1")
          \/ NewSessionOptions(p, "s1", StoreOptions \cup AttrOptions)
          \/ AccessCall(p, "s1")
          \/ AddCall(p, "s1")
          \/ WriteLocked(p)
          \/ AddBody(p)
          \/ \E id \in Ids : GetCall(p, id)
          \/ GetProgress(p)

SpecSess == Init /\ [][NextSess]_vars

\* One client and one handler at a time, on a manager built with any of the
\* options, around two sessions; the clock stands.
NextMngr ==
    \/ \E o \in CookieMngrOptions : NewCookieManagerOptions(o)
    \/ ClientOtherCookie
    \/ ServeHTTP("p1")
    \/ Respond("p1")
    \/ MngrCall("p1", Refs)
    \/ MngrProgress("p1")

SpecMngr == Init /\ [][NextMngr]_vars

\* One client and one handler at a time on a manager whose store has its
\* cleaner running, around one session, with the clock.
NextMngrTimed ==
    \/ \E o \in CookieMngrOptions : NewCookieManagerOptions(o)
    \/ AdvanceTime
    \/ CleanerTick
    \/ CleanerSweep
    \/ ServeHTTP("p1")
    \/ Respond("p1")
    \/ MngrCall("p1", {"s1"})
    \/ MngrGetNil("p1")
    \/ MngrAddStore("p1")
    \/ MngrRemoveStore("p1")
    \/ TimedProgress("p1")

SpecMngrTimed == Init /\ [][NextMngrTimed]_vars

\* The clock of the short runs moves when every goroutine has finished what
\* it can do.
QuietTick == Quiescent /\ Tick(MaxTime)

\* One request goroutine and the cleaner, around two sessions whose ids can
\* be the same, with steps that take no time; the store is not closed.
NextStore ==
    \/ QuietTick
    \/ CleanerTick
    \/ CleanerSweep
    \/ \E s \in Refs : NewSessionOptions("p1", s, StoreOptions)
    \/ \E id \in Ids : GetCall("p1", id)
    \/ \E s \in Refs : AddCall("p1", s)
    \/ \E s \in Refs : RemoveCall("p1", s)
    \/ Progress("p1")

SpecStore == Init /\ [][NextStore]_vars

\* A handler that does everything that can be done with one session: it
\* constructs it with constant attributes, calls Access, SetAttr, Attr, Attrs
\* and CAttr on it, adds it to the manager, gets and removes it, and closes
\* the store, while the clock and the cleaner run.
NextFrame ==
    \/ QuietTick
    \/ Cleaner
    \/ NewCookieManagerOptions(CHOOSE o \in CookieMngrOptions : o.AllowHTTP)
    \/ ServeHTTP("p1")
    \/ Respond("p1")
    \/ NewSessionOptions("p1", "s1", FrameOptions)
    \/ MngrGet("p1")
    \/ MngrAdd("p1", "s1")
    \/ MngrRemove("p1", "s1")
    \/ MngrProgress("p1")
    \/ AccessCall("p1", "s1")
    \/ \E v \in {"v2", Nil} : SetAttrCall("p1", "s1", "x", v)
    \/ AttrCall("p1", "s1", "x")
    \/ AttrsCall("p1", "s1")
    \/ AttrProgress("p1")
    \/ \E n \in Names : CAttr("p1", "s1", n)
    \/ CAttrDone("p1")
    \/ StoreClose("p1")

SpecFrame == Init /\ [][NextFrame]_vars

\* Two goroutines that create a session, whatever the random source does,
\* and use it outside any store, while the clock runs.
NextRand ==
    \/ AdvanceTime
    \/ \E p \in Procs :
          \/ \E read \in Reads : NewSessionOptionsRead(p, "s1", AttrOptions, read)
          \/ AccessCall(p, "s1")
          \/ AccessAnnounce(p)
          \/ AccessNow(p)
          \/ AccessWrite(p)
          \/ \E n \in Names : CAttr(p, "s1", n)
          \/ CAttrDone(p)

SpecRand == Init /\ [][NextRand]_vars

\* Two request goroutines and the cleaner, around one session, with steps
\* that take no time; the store is not closed.
NextLock ==
    \/ QuietTick
    \/ CleanerTick
    \/ CleanerSweep
    \/ \E p \in Procs :
          \/ NewSessionOptions(p, "s1", StoreOptions)
          \/ \E id \in Ids : GetCall(p, id)
          \/ AddCall(p, "s1")
          \/ RemoveCall(p, "s1")
          \/ Progress(p)

SpecLock == Init /\ [][NextLock]_vars

\* ================================================================ claims
\* A request goroutine is inside Get, past the lookup, with a session.
Hit(p) == th[p].op = "Get" /\ th[p].s # Nil

\* The step in which Get returns to its caller.
GetReturns(p) == th[p].pc = "get_ret" /\ th'[p].pc = "idle"

\* C1. Store round trip: Add(s) leaves s itself under its id in the map, and
\* a Get returns, at the step it returns, the very cell the map holds under
\* the id it was asked for (the same identity, not another cell with the
\* same id).
C1_RoundTrip ==
    [][\A p \in Procs :
         /\ GetReturns(p) => th[p].s = sessions[th[p].id]
         /\ (th[p].op = "Add" /\ th'[p].pc = "idle")
               => sessions'[sess[th[p].s].IDF] = th[p].s]_vars

\* A Get is about to return the stored cell while another cell has the
\* same id.
C1_Witness ==
    \E p \in Procs :
      /\ th[p].pc = "get_ret" /\ Hit(p)
      /\ sessions[th[p].id] = th[p].s
      /\ \E r \in Refs \ {th[p].s} : sess[r].IDF = th[p].id

\* C2 as stated. Whenever a Get that hit is about to return, the session's
\* accessed time equals the time that Get read.
C2_AccessedEqualsRead ==
    \A p \in Procs :
      (th[p].pc = "get_ret" /\ Hit(p)) => sess[th[p].s].AccessedF = th[p].tnow

\* C2 amended. A Get that hit reaches its return only through Access, whose
\* write sets the accessed time to the time read during that Get; when the
\* Get returns the accessed time is that instant or a later one.
C2_AccessBeforeReturn ==
    /\ [](\A p \in Procs :
            (th[p].pc = "get_ret" /\ Hit(p))
               => sess[th[p].s].AccessedF >= th[p].tnow)
    /\ [][\A p \in Procs :
            (th[p].pc # "get_ret" /\ th'[p].pc = "get_ret" /\ th'[p].s # Nil)
               => /\ th[p].pc = "acc_write"
                  /\ sess'[th[p].s].AccessedF = th[p].tnow
                  /\ th[p].t0 <= th[p].tnow /\ th[p].tnow <= now]_vars

\* A Get is about to return a session whose accessed time a concurrent Get
\* has moved past the time the first one read.
C2_Witness ==
    \E p \in Procs :
      /\ th[p].pc = "get_ret" /\ Hit(p)
      /\ sess[th[p].s].AccessedF > th[p].tnow
      /\ th[p].tnow > sess[th[p].s].CreatedF

\* C3. Sweeper safety: whenever the cleaner deletes an entry, the session's
\* idle time (the clock minus its accessed time) is strictly greater than
\* its timeout.
C3_SweeperSafety ==
    [][\A i \in Ids :
         (cl.pc = "w_next" /\ cl' # cl /\ sessions[i] # Nil /\ sessions'[i] = Nil)
            => now - sess[sessions[i]].AccessedF > sess[sessions[i]].TimeoutF]_vars

\* The cleaner has evicted a session in the sweep it is in, and a Get
\* refreshed that session after its construction.
C3_Witness ==
    /\ cl.logged # {}
    /\ \E s \in Refs : sess[s].IDF \in cl.logged /\ ~IsNew(s)

\* The step in which a Get finds a session under its id.
GetHits(p) == th[p].pc = "get_rlock" /\ th'[p].pc = "acc_lock"

\* C4 as stated. In a store that is not closed, with an interval shorter
\* than the session's timeout, no Get called later than timeout + interval
\* after the session's last access finds the session.
C4_Expiration ==
    [][\A p \in Procs :
         GetHits(p) =>
            LET s == th'[p].s IN
            (~closeTicker /\ SessCleanerInterval < sess[s].TimeoutF)
               => th[p].t0 <= sess[s].AccessedF + sess[s].TimeoutF
                                 + SessCleanerInterval]_vars

\* C4 amended. The same, for a Get that is also called later than one
\* interval after the Add that put the session into the store.
C4_ExpirationAfterAdd ==
    [][\A p \in Procs :
         GetHits(p) =>
            LET s == th'[p].s IN
            (/\ ~closeTicker
             /\ SessCleanerInterval < sess[s].TimeoutF
             /\ th[p].t0 > addedAt[th[p].id] + SessCleanerInterval)
               => th[p].t0 <= sess[s].AccessedF + sess[s].TimeoutF
                                 + SessCleanerInterval]_vars

\* A Get called later than timeout + interval after the last access of a
\* session that was added and never removed is about to return nil.
C4_Witness ==
    \E p \in Procs, s \in Refs :
      /\ th[p].pc = "get_ret" /\ th[p].op = "Get" /\ th[p].s = Nil
      /\ sess[s].IDF = th[p].id
      /\ addedAt[th[p].id] >= 0 /\ th[p].id \notin removed
      /\ ~closeTicker /\ SessCleanerInterval < sess[s].TimeoutF
      /\ th[p].t0 > sess[s].AccessedF + sess[s].TimeoutF + SessCleanerInterval

\* C5. Store removal: a Get called after a Remove of its id has returned,
\* with no Add of that id called since, returns nothing.
C5_Removal ==
    \A p \in Procs : th[p].afterRm => th[p].s = Nil

\* Such a Get is about to return nil, for the id of a session that exists.
C5_Witness ==
    \E p \in Procs :
      /\ th[p].pc = "get_ret" /\ th[p].afterRm
      /\ \E s \in Refs : sess[s].IDF = th[p].id /\ ~IsNew(s)

\* C6. Get changes no membership: no step of a Get changes the map or any
\* field of a session other than the accessed time of the session it hit,
\* and a Get of an absent id returns nil.
C6_GetFrame ==
    [][\A p \in Procs :
         (th'[p].pc # th[p].pc /\ (th[p].op = "Get" \/ th'[p].op = "Get"))
            => /\ sessions' = sessions
               /\ \A s \in Refs :
                    \/ sess'[s] = sess[s]
                    \/ /\ s = th[p].s
                       /\ sess'[s] = [sess[s] EXCEPT !.AccessedF = sess'[s].AccessedF]
               /\ (th[p].pc = "get_rlock" /\ sessions[th[p].id] = Nil)
                     => (th'[p].pc = "get_ret" /\ th'[p].s = Nil)]_vars

\* A Get of an absent id is about to return nil while the map holds another
\* entry, and a Get that hit has changed the accessed time.
C6_Witness ==
    \E p \in Procs :
      /\ th[p].pc = "get_ret" /\ th[p].op = "Get" /\ th[p].s = Nil
      /\ sessions[th[p].id] = Nil
      /\ \E s \in Refs : Live(s) /\ sessions[sess[s].IDF] = s /\ ~IsNew(s)

\* C7. Sweeper termination: Close can be called whatever the locks are, and
\* once closeTicker is closed the cleaner eventually returns, its ticker
\* stopped.
C7_Termination ==
    /\ [](\A p \in Procs : th[p].pc = "idle" => ENABLED StoreClose(p))
    /\ closeTicker ~> (cl.pc = "done" /\ ~tickerOn)

\* The cleaner has returned, its ticker stopped, after a sweep in which it
\* evicted a session, and it has left a tick in ticker.C.
C7_Witness ==
    /\ cl.pc = "done" /\ ~tickerOn /\ closeTicker /\ tickerC # << >>
    /\ \E s \in Refs :
         /\ Live(s) /\ ~IsNew(s)
         /\ sessions[sess[s].IDF] = Nil /\ sess[s].IDF \notin removed

\* C8. No final sweep: once closeTicker is closed the cleaner takes no tick
\* from ticker.C, so it starts no sweep.
C8_NoFinalSweep ==
    [][closeTicker => ~(cl.pc = "select" /\ cl'.pc = "r_rlock")]_vars

\* C9. Monotonic freshness: whenever a Get that hit is about to return, the
\* session's accessed time is at least the instant that Get was called.
C9_Freshness ==
    \A p \in Procs :
      (th[p].pc = "get_ret" /\ Hit(p)) => sess[th[p].s].AccessedF >= th[p].t0

\* Two Gets of the same session overlap, one about to return, the other
\* one called later and past its own write.
C9_Witness ==
    \E p, q \in Procs :
      /\ p # q /\ Hit(p) /\ Hit(q) /\ th[p].s = th[q].s
      /\ th[p].pc = "get_ret" /\ th[q].pc = "get_ret"
      /\ th[p].t0 < th[q].t0 /\ th[p].t0 > 0

\* The goroutines inside the critical section of SetAttr on s, and those
\* that hold the read lock of Attr or Attrs on s.
MapWriters(s) == {p \in Procs : th[p].pc \in {"sa_write", "sa_store"} /\ th[p].s = s}
MapReaders(s) == {p \in Procs : th[p].pc \in {"at_read", "as_read"} /\ th[p].s = s}

\* C10. Concurrent attribute safety: at most one SetAttr is inside a write
\* of the attribute map, no Attr or Attrs reads the map meanwhile, and
\* whenever no write is under way the map is what the SetAttr calls give
\* when applied one after the other in the order they got the lock.
C10_AttrSafety ==
    \A s \in Refs :
      /\ Cardinality(MapWriters(s)) <= 1
      /\ MapWriters(s) # {} => MapReaders(s) = {}
      /\ MapWriters(s) = {} => sess[s].AttrsF = lin[s]

\* Both names have been set by SetAttr calls, one goroutine reads the map
\* and the other one has called SetAttr and waits for the reader to leave.
C10_Witness ==
    \E p, q \in Procs, s \in Refs :
      /\ th[p].pc = "as_read" /\ th[p].s = s
      /\ th[q].pc = "sa_drain" /\ th[q].s = s
      /\ DOMAIN sess[s].AttrsF = Names
      /\ sess[s].AttrsF["y"] = "v2"

\* The session cookie a request carries, NoCookie when it carries none.
SessionCookie(r) == RequestCookie(r, mngr.sessIDCookieName)

\* The step in which the handler of p returns and the client takes the
\* response, whose last Set-Cookie header is c.
Responds(p) == req[p] # << >> /\ req'[p] = << >> /\ resp[p] # << >>

\* C11. Manager lifecycle: a Get for a request without the session cookie
\* returns nothing; the response of an Add leaves the client with a cookie
\* whose value is the session's id, and a Get for a request with that cookie
\* returns the session the store holds under that id, whose id it is; the
\* response of a Remove leaves the client without the cookie.
C11_Lifecycle ==
    [][\A p \in Procs :
         /\ (th[p].pc = "idle" /\ th'[p].op = "Get" /\ SessionCookie(req[p][1]) = NoCookie)
               => (th'[p].pc = "mget_ret" /\ th'[p].s = Nil)
         /\ (GetReturns(p) /\ req[p] # << >>)
               => /\ th[p].id = SessionCookie(req[p][1]).Value
                  /\ th[p].s = sessions[th[p].id]
                  /\ th[p].s # Nil => sess[th[p].s].IDF = th[p].id
         /\ (Responds(p) /\ th[p].op = "")
               => LET c == resp[p][Len(resp[p])] IN
                  IF c.Value = ""
                  THEN RequestCookie(jar', mngr.sessIDCookieName) = NoCookie
                  ELSE RequestCookie(jar', mngr.sessIDCookieName).Value = c.Value]_vars

\* The lifecycle has gone round: the first session was removed through the
\* manager, and a Get for a request with the cookie of the second one is
\* about to return that session.
C11_Witness ==
    /\ Live("s1") /\ Live("s2") /\ sess["s1"].IDF # sess["s2"].IDF
    /\ sess["s1"].IDF \in removed /\ sessions[sess["s1"].IDF] = Nil
    /\ th["p1"].pc = "get_ret" /\ th["p1"].s = "s2"
    /\ SessionCookie(jar).Value = sess["s2"].IDF

\* C12. CookieManager.Get returns nil without touching the store when the
\* request has no cookie of the manager's name; else it calls the store's
\* Get with the cookie's value and returns what that returns, which is nil
\* when the map has no such id.
C12_MngrGet ==
    /\ [](\A p \in Procs :
            th[p].pc = "mget_ret" => (th[p].s = Nil /\ p \notin mux.r /\ mux.w # p))
    /\ [][\A p \in Procs :
            /\ (th[p].pc = "idle" /\ th'[p].op = "Get")
                  => LET c == [k \in req[p][1] |-> k.Name = mngr.sessIDCookieName] IN
                     IF \A k \in req[p][1] : ~c[k]
                     THEN th'[p].pc = "mget_ret" /\ mux' = mux
                     ELSE /\ th'[p].pc = "get_rlock"
                          /\ \E k \in req[p][1] : c[k] /\ th'[p].id = k.Value
            /\ (GetReturns(p) /\ req[p] # << >>)
                  => th[p].s = sessions[th[p].id]]_vars

\* A Get of the manager is about to return nil for a request that carries
\* a cookie, not the manager's, while the store holds a session.
C12_Witness ==
    \E p \in Procs :
      /\ th[p].pc = "mget_ret"
      /\ req[p][1] # {}
      /\ Present # {}

\* The last cookie set on the response of p.
LastCookie(p) == resp[p][Len(resp[p])]

\* The manager's settings come from the options of that name: the secure
\* flag is set unless AllowHTTP, the name and the path are those given.
Configured ==
    \E o \in CookieMngrOptions :
      /\ mngr.cookieSecure = ~o.AllowHTTP
      /\ mngr.sessIDCookieName =
            (IF o.SessIDCookieName = "" THEN "sessid" ELSE o.SessIDCookieName)
      /\ o.CookiePath # "" => mngr.cookiePath = o.CookiePath
      /\ o.CookieMaxAge = 0 \/ mngr.cookieMaxAgeSec * 1000 <= o.CookieMaxAge

\* A goroutine is inside the store's Add or Remove.
InStore(p, op) == th[p].op = op /\ th[p].pc \in {"w_drain", "w_body"}

\* C13. CookieManager.Add: from before the store's Add is called until the
\* Add has returned, the last cookie set on the response has the session's
\* id as value, the manager's name, path, max age and secure flag, and
\* HttpOnly; when the store's Add returns the session is in the map under
\* its id.
C13_MngrAdd ==
    /\ [](\A p \in Procs :
            (th[p].pc = "m_add" \/ InStore(p, "Add"))
               => /\ Configured
                  /\ resp[p] # << >>
                  /\ LastCookie(p).Value = sess[th[p].s].IDF
                  /\ LastCookie(p).Name = mngr.sessIDCookieName
                  /\ LastCookie(p).Path = mngr.cookiePath
                  /\ LastCookie(p).MaxAge = mngr.cookieMaxAgeSec
                  /\ LastCookie(p).HttpOnly
                  /\ LastCookie(p).Secure = mngr.cookieSecure)
    /\ [][\A p \in Procs :
            (InStore(p, "Add") /\ th'[p].pc = "idle")
               => sessions'[sess[th[p].s].IDF] = th[p].s]_vars

\* An Add of a manager that allows HTTP has returned: the cookie is on the
\* response, not secure, and the session is in the store.
C13_Witness ==
    \E p \in Procs, s \in Refs :
      /\ th[p].pc = "idle" /\ req[p] # << >> /\ resp[p] # << >>
      /\ Live(s) /\ sessions[sess[s].IDF] = s
      /\ LastCookie(p).Value = sess[s].IDF
      /\ ~LastCookie(p).Secure /\ LastCookie(p).HttpOnly

\* C14. CookieManager.Remove: from before the store's Remove is called until
\* it has returned, the last cookie set on the response has an empty value
\* and a max age of zero or less, and the name, path and secure flag of the
\* cookie Add sets; when the store's Remove returns the map has no entry
\* under the session's id.
C14_MngrRemove ==
    /\ [](\A p \in Procs :
            (th[p].pc = "m_remove" \/ InStore(p, "Remove"))
               => /\ resp[p] # << >>
                  /\ LastCookie(p).Value = ""
                  /\ LastCookie(p).MaxAge <= 0
                  /\ LET a == AddCookie(mngr, sess[th[p].s].IDF) IN
                     /\ LastCookie(p).Name = a.Name
                     /\ LastCookie(p).Path = a.Path
                     /\ LastCookie(p).Secure = a.Secure)
    /\ [][\A p \in Procs :
            (InStore(p, "Remove") /\ th'[p].pc = "idle")
               => sessions'[sess[th[p].s].IDF] = Nil]_vars

\* A Remove of a manager with a path of its own has returned, for a session
\* that was in the store: the clearing cookie is on the response, after the
\* cookie of the Add, and the session is not in the store.
C14_Witness ==
    \E p \in Procs, s \in Refs :
      /\ th[p].pc = "idle" /\ Len(resp[p]) = 2
      /\ resp[p][1].Value = sess[s].IDF
      /\ LastCookie(p).Value = "" /\ LastCookie(p).Path = "/app"
      /\ Live(s) /\ sess[s].IDF \in removed /\ sessions[sess[s].IDF] = Nil

\* The session of this id was added and the cleaner has deleted its entry:
\* it is not in the map, and no Remove took it out since its last Add.
Evicted(id) == addedAt[id] >= 0 /\ id \notin removed /\ sessions[id] = Nil

\* C15. Timeout seen by the client: once the cleaner has evicted a session,
\* a Get of the manager for a request that carries the session's cookie
\* returns nil; the eviction itself touches neither a response nor the
\* client's cookies.
C15_TimeoutTransition ==
    [][/\ \A p \in Procs :
            (/\ th[p].pc = "get_rlock" /\ th'[p].pc # "get_rlock"
             /\ req[p] # << >> /\ Evicted(th[p].id))
               => (th'[p].pc = "get_ret" /\ th'[p].s = Nil)
       /\ (\E i \in Ids : ~Evicted(i) /\ Evicted(i)')
               => (jar' = jar /\ resp' = resp /\ req' = req)]_vars

\* A Get of the manager is about to return nil for a request with the cookie
\* of an evicted session, a cookie the client still has.
C15_Witness ==
    \E p \in Procs :
      /\ th[p].pc = "get_ret" /\ th[p].s = Nil
      /\ Evicted(th[p].id)
      /\ SessionCookie(req[p][1]).Value = th[p].id
      /\ SessionCookie(jar).Value = th[p].id

\* The step in which a session comes into being in cell s.
Constructed(s) == ~Live(s) /\ Live(s)'

\* C16. Right after construction, with the default options or with the
\* caller's, a session is new, its creation and access times are the same
\* instant, the one of the construction, and its attribute map holds the
\* initial attributes given and nothing else: it is empty when none was given.
C16_FreshSession ==
    [][\A s \in Refs :
         Constructed(s)
            => /\ IsNew(s)'
               /\ sess'[s].CreatedF = sess'[s].AccessedF
               /\ sess'[s].CreatedF = now
               /\ sess'[s].AttrsF = lin'[s]
               /\ lin'[s] = EmptyMap => DOMAIN sess'[s].AttrsF = {}]_vars

\* A session built with the default options some time after the start has
\* not been touched: it is new and its attribute map is empty.
C16_Witness ==
    \E s \in Refs :
      /\ Live(s) /\ IsNew(s) /\ sess[s].CreatedF = MaxTime
      /\ sess[s].TimeoutF = DefaultTimeout /\ DOMAIN sess[s].AttrsF = {}
      /\ \A p \in Procs : th[p].pc = "idle"

\* C17. An Access, called on the session or by the store's Get, that reads
\* the clock later than the construction leaves the access time after the
\* creation time, so the session is not new; a session that is not new
\* never becomes new again.
C17_NotNewAfterAccess ==
    [][\A s \in Refs :
         /\ \A p \in Procs :
              (/\ th[p].pc = "acc_write" /\ th'[p].pc # "acc_write" /\ th[p].s = s
               /\ th[p].tnow > sess[s].CreatedF)
                 => (sess'[s].AccessedF > sess'[s].CreatedF /\ ~IsNew(s)')
         /\ (Live(s) /\ ~IsNew(s)) => ~IsNew(s)']_vars

\* A second Access called on a session that is not new any more is about to
\* write a later time.
C17_Witness ==
    \E p \in Procs :
      /\ th[p].op = "Access" /\ th[p].pc = "acc_write"
      /\ ~IsNew(th[p].s)
      /\ th[p].tnow > sess[th[p].s].AccessedF

\* The step in which the SetAttr of p writes the map of s.
SetAttrWrites(p, s) ==
    th[p].pc = "sa_store" /\ th[p].s = s /\ th'[p].pc # "sa_store"

\* What SetAttr, Attr and Attrs do, step by step: a SetAttr of a non-nil
\* value leaves the name with that value, a SetAttr of nil leaves the name
\* absent, and either one leaves every other name as it was; nothing but a
\* SetAttr changes the map; Attr returns the value the map has for the name,
\* nil when it is absent, and Attrs the names and values the map has.
AttrSetGet ==
    \A s \in Refs :
      /\ \A p \in Procs :
           SetAttrWrites(p, s) =>
              /\ IF th[p].v = Nil
                 THEN th[p].nm \notin DOMAIN sess'[s].AttrsF
                 ELSE /\ th[p].nm \in DOMAIN sess'[s].AttrsF
                      /\ sess'[s].AttrsF[th[p].nm] = th[p].v
              /\ \A k \in (DOMAIN sess[s].AttrsF \cup DOMAIN sess'[s].AttrsF) \ {th[p].nm} :
                    /\ k \in DOMAIN sess[s].AttrsF /\ k \in DOMAIN sess'[s].AttrsF
                    /\ sess'[s].AttrsF[k] = sess[s].AttrsF[k]
      /\ (Live(s) /\ sess'[s].AttrsF # sess[s].AttrsF)
            => \E p \in Procs : SetAttrWrites(p, s)
      /\ \A p \in Procs :
           /\ (th[p].pc = "at_read" /\ th'[p].pc = "at_ret" /\ th[p].s = s)
                 => th'[p].v = (IF th[p].nm \in DOMAIN sess[s].AttrsF
                                THEN sess[s].AttrsF[th[p].nm] ELSE Nil)
           /\ (th[p].pc = "as_read" /\ th'[p].pc = "as_ret" /\ th[p].s = s)
                 => th'[p].m = sess[s].AttrsF

\* No attribute map holds a name with the value nil.
NoNullAttr ==
    \A s \in Refs : \A k \in DOMAIN sess[s].AttrsF : sess[s].AttrsF[k] # Nil

\* C18 as stated. SetAttr, Attr and Attrs behave as above, and no attribute
\* with the value nil is ever stored.
C18_AttrSetGetNoNull == [][AttrSetGet]_vars /\ []NoNullAttr

\* C18, the part about SetAttr alone, which holds. SetAttr, Attr and Attrs
\* behave as above, and no SetAttr stores the value nil: a name with the value nil is in the map only as
\* long as it was among the initial attributes and has not been set since.
C18_SetAttrNoNull ==
    [][/\ AttrSetGet
       /\ \A s \in Refs : \A k \in DOMAIN sess'[s].AttrsF :
            (Live(s) /\ sess'[s].AttrsF[k] = Nil)
               => (k \in DOMAIN sess[s].AttrsF /\ sess[s].AttrsF[k] = Nil)]_vars

\* An Attr has returned the value a SetAttr gave to a name, while a SetAttr
\* of nil is about to take a name out of the map that holds it.
C18_Witness ==
    \E p, q \in Procs, s \in Refs :
      /\ th[p].pc = "at_ret" /\ th[p].s = s /\ th[p].nm = "y" /\ th[p].v = "v2"
      /\ th[q].pc = "sa_store" /\ th[q].s = s /\ th[q].nm = "x" /\ th[q].v = Nil
      /\ "x" \in DOMAIN sess[s].AttrsF

\* C19. Attrs() returns an independent copy: a write of the caller to the
\* map that Attrs() returned, be it a new name, a new value for a name or a
\* delete, changes no session, and every later Attr and Attrs returns what
\* the construction and the SetAttr calls alone have put into the session.
C19_AttrsCopy ==
    [][\A p \in Procs :
         /\ ("m" \in held'[p].dirty /\ held'[p].m # held[p].m) => sess' = sess
         /\ (th[p].pc = "at_read" /\ th'[p].pc = "at_ret")
               => th'[p].v = AttrValue(lin[th[p].s], th[p].nm)
         /\ (th[p].pc = "as_read" /\ th'[p].pc = "as_ret")
               => th'[p].m = lin[th[p].s]]_vars

\* The caller has given another value to a name of the map an Attrs() call
\* returned to it, and a later Attrs() is about to return the session's own.
C19_Witness ==
    \E p \in Procs :
      /\ th[p].pc = "as_ret" /\ held[p].kept /\ "m" \in held[p].dirty
      /\ AttrValue(held[p].m, "x") = "v2" /\ AttrValue(th[p].m, "x") = "v1"

\* C20. Construction copies the caller's option maps: the new session has
\* exactly the entries of o.Attrs and of o.CAttrs as they are at the call, a
\* later write of the caller to either map changes no session, CAttr returns
\* the constant attribute given at the call, and Attr and Attrs return the
\* attributes given at the call as long as no SetAttr has changed them.
C20_OptionsCopy ==
    [][\A p \in Procs :
         /\ \A s \in Refs :
              (held[p].made = Nil /\ held'[p].made = s)
                 => /\ sess'[s].AttrsF = held[p].o.Attrs
                    /\ sess'[s].CAttrsF = held[p].o.CAttrs
         /\ (held[p].made # Nil /\ held'[p].o # held[p].o) => sess' = sess
         /\ \A q \in Procs :
              /\ (th[p].pc = "idle" /\ th'[p].pc = "ca_ret"
                     /\ held[q].made = th'[p].s)
                    => th'[p].v = AttrValue(held[q].given.CAttrs, th'[p].nm)
              /\ (th[p].pc = "at_read" /\ th'[p].pc = "at_ret"
                     /\ held[q].made = th[p].s
                     /\ lin[th[p].s] = held[q].given.Attrs)
                    => th'[p].v = AttrValue(held[q].given.Attrs, th[p].nm)
              /\ (th[p].pc = "as_read" /\ th'[p].pc = "as_ret"
                     /\ held[q].made = th[p].s
                     /\ lin[th[p].s] = held[q].given.Attrs)
                    => th'[p].m = held[q].given.Attrs]_vars

\* The caller has written to both maps of the options after it constructed
\* a session from them, and a CAttr is about to return the constant
\* attribute given at the construction, which the caller's map has no more.
C20_Witness ==
    \E p \in Procs :
      /\ held[p].made # Nil /\ {"Attrs", "CAttrs"} \subseteq held[p].dirty
      /\ held[p].given.Attrs # EmptyMap
      /\ held[p].o.Attrs # held[p].given.Attrs
      /\ th[p].pc = "ca_ret" /\ th[p].s = held[p].made
      /\ th[p].v # Nil /\ th[p].v # AttrValue(held[p].o.CAttrs, th[p].nm)

\* The step in which the body of the Remove of p runs.
RemoveRuns(p) == th[p].pc = "w_body" /\ th[p].op = "Remove" /\ th'[p].pc # "w_body"

\* C21. Remove is idempotent: the body of a Remove leaves no entry under the
\* session's id and every other entry as it was, changes nothing at all when
\* the id is not in the map (never added, removed before, or evicted),
\* returns without an error, and leaves a map that a second Remove of the
\* same session would not change.
C21_RemoveIdempotent ==
    [][\A p \in Procs :
         RemoveRuns(p) =>
            LET id == sess[th[p].s].IDF IN
            /\ th'[p] = IdleTh
            /\ sessions'[id] = Nil
            /\ \A i \in Ids \ {id} : sessions'[i] = sessions[i]
            /\ sessions[id] = Nil => sessions' = sessions
            /\ sess' = sess
            /\ RemoveEntry(sessions', th[p].s) = sessions']_vars

\* The body of a Remove is about to run for a session that a Remove took out
\* of the map before, while the map holds another session.
C21_Witness ==
    \E p \in Procs :
      /\ th[p].pc = "w_body" /\ th[p].op = "Remove"
      /\ sess[th[p].s].IDF \in removed /\ sessions[sess[th[p].s].IDF] = Nil
      /\ \E i \in Ids : i # sess[th[p].s].IDF /\ sessions[i] # Nil

\* The step in which the body of the Add of p runs.
AddRuns(p) == th[p].pc = "w_body" /\ th[p].op = "Add" /\ th'[p].pc # "w_body"

\* C22. Add replaces silently: the body of an Add leaves the added session
\* under its id, whatever the map held there, which is what the lookup of a
\* Get of that id reads; every other entry is as it was, the
\* map has as many entries as before when it had one under the id, and the
\* Add returns without an error.
C22_AddReplaces ==
    [][\A p \in Procs :
         AddRuns(p) =>
            LET id == sess[th[p].s].IDF IN
            /\ th'[p] = IdleTh
            /\ sessions'[id] = th[p].s
            /\ \A i \in Ids \ {id} : sessions'[i] = sessions[i]
            /\ sessions[id] # Nil
                  => Cardinality({i \in Ids : sessions'[i] # Nil}) = Cardinality(Present)
            /\ sess' = sess]_vars

\* The body of an Add is about to run for a session whose id the map holds
\* with another session.
C22_Witness ==
    \E p \in Procs :
      /\ th[p].pc = "w_body" /\ th[p].op = "Add"
      /\ sessions[sess[th[p].s].IDF] \notin {Nil, th[p].s}

\* C23. Store key invariant: every entry of the map is under the id of the
\* session it holds, and a Get that found a session found one whose id is
\* the id it was asked for.
C23_KeyInvariant ==
    /\ \A i \in Ids : sessions[i] # Nil => sess[sessions[i]].IDF = i
    /\ \A p \in Procs : Hit(p) => sess[th[p].s].IDF = th[p].id

\* A Get of the second id is about to return a session while the map holds
\* two entries.
C23_Witness ==
    \E p \in Procs :
      /\ th[p].pc = "get_ret" /\ Hit(p) /\ th[p].id = "b"
      /\ Cardinality(Present) = 2

\* The step in which the Access of p, called directly or by Get, writes the
\* access time of s.
AccessWrites(p, s) ==
    th[p].pc = "acc_write" /\ th[p].s = s /\ th'[p].pc # "acc_write"

\* The times of a session, whatever an Access does to IsNew: the access time
\* is never before the creation time, a session is new when it is
\* constructed, and no step but the write of an Access ends that.
NewUntilAccess ==
    \A s \in Refs :
      /\ Live(s)' => sess'[s].AccessedF >= sess'[s].CreatedF
      /\ Constructed(s) => IsNew(s)'
      /\ (Live(s) /\ IsNew(s) /\ ~IsNew(s)') => \E p \in Procs : AccessWrites(p, s)

\* C24 as stated. The above, and created == accessed holds exactly as long
\* as no Access has been performed: every Access leaves the session not new.
C24_NewIffNoAccess ==
    [][/\ NewUntilAccess
       /\ \A s \in Refs, p \in Procs : AccessWrites(p, s) => ~IsNew(s)']_vars

\* C24 amended. The above, and created == accessed holds exactly as long as
\* no Access has read the clock later than the construction: an Access of a
\* new session leaves it new if and only if the instant it read is the
\* instant of the construction, and an Access of a session that is not new
\* leaves it not new.
C24_NewIffNoLaterAccess ==
    [][/\ NewUntilAccess
       /\ \A s \in Refs, p \in Procs :
            AccessWrites(p, s)
               => (IsNew(s)' <=> (IsNew(s) /\ th[p].tnow = sess[s].CreatedF))]_vars

\* A Get has performed its Access on a session and is about to return it,
\* and the session is still new: the Access read the instant of the
\* construction.
C24_Witness ==
    \E p \in Procs :
      /\ th[p].pc = "get_ret" /\ Hit(p) /\ IsNew(th[p].s)
      /\ th[p].tnow = sess[th[p].s].CreatedF /\ th[p].tnow > 0

\* C25. The id, the creation time, the timeout and the constant attributes
\* of a session are fixed at construction: no step of SetAttr, Access, Get,
\* Add, Remove, of the cleaner or of Close changes any of them.
C25_FixedFields ==
    [][\A s \in Refs :
         Live(s) => /\ sess'[s].IDF = sess[s].IDF
                    /\ sess'[s].CreatedF = sess[s].CreatedF
                    /\ sess'[s].TimeoutF = sess[s].TimeoutF
                    /\ sess'[s].CAttrsF = sess[s].CAttrsF]_vars

\* A session with a constant attribute has been accessed some time after its
\* construction, has had an attribute set, has been added and removed, and
\* the store has been closed and its cleaner has stopped.
C25_Witness ==
    \E s \in Refs :
      /\ Live(s) /\ sess[s].AccessedF > sess[s].CreatedF
      /\ sess[s].CAttrsF # EmptyMap
      /\ AttrValue(sess[s].AttrsF, "x") = "v2"
      /\ sess[s].IDF \in removed /\ sessions[sess[s].IDF] = Nil
      /\ closeTicker /\ cl.pc = "done"

\* C26. No session has an id built from bytes the random source did not
\* deliver: a construction during which the read of the random source fails
\* or falls short returns no session.
C26_NoWeakID ==
    \A s \in Refs : Live(s) => sess[s].IDF \in Ids

\* C27. The manager's configuration is resolved at construction and never
\* changes: the cookie name is the one given or "sessid" when none is, the
\* path the one given or "/" when none is, the max age the whole seconds of
\* the duration given or 30 days when it is zero, and the secure flag is set
\* unless plain HTTP is allowed.
C27_Configuration ==
    [][/\ (mngr = NoMngr /\ mngr' # NoMngr) =>
            \E o \in CookieMngrOptions :
              /\ mngr'.sessIDCookieName =
                    (IF o.SessIDCookieName = "" THEN "sessid" ELSE o.SessIDCookieName)
              /\ mngr'.cookiePath = (IF o.CookiePath = "" THEN "/" ELSE o.CookiePath)
              /\ mngr'.cookieSecure = ~o.AllowHTTP
              /\ IF o.CookieMaxAge = 0
                 THEN mngr'.cookieMaxAgeSec = 30 * 24 * 60 * 60
                 ELSE /\ mngr'.cookieMaxAgeSec * 1000 <= o.CookieMaxAge
                      /\ o.CookieMaxAge < (mngr'.cookieMaxAgeSec + 1) * 1000
       /\ mngr # NoMngr => mngr' = mngr]_vars

\* A manager built from options with a name, no path and a max age below a
\* second has set a cookie on a response.
C27_Witness ==
    /\ mngr.sessIDCookieName = "tok" /\ mngr.cookiePath = "/"
    /\ mngr.cookieMaxAgeSec = 0 /\ mngr.cookieSecure
    /\ \E p \in Procs : resp[p] # << >> /\ LastCookie(p).Name = "tok"

\* C28. The rescan protects refreshed sessions: the cleaner deletes an entry
\* in its write scan only if the session, with the access time it has at
\* that moment, has timed out at the instant of the tick; a session that
\* had timed out in the read scan and was refreshed by a Get before the
\* cleaner got the write lock is not deleted in that tick.
C28_RescanProtects ==
    [][\A i \in Ids :
         (cl.pc = "w_next" /\ cl'.pc = "w_next"
             /\ sessions[i] # Nil /\ sessions'[i] = Nil)
            => cl.now - sess[sessions[i]].AccessedF > sess[sessions[i]].TimeoutF]_vars

\* The write scan is over and has deleted nothing: the only session there
\* is, which the read scan of this tick had found timed out, is still in the
\* map, refreshed by a Get.
C28_Witness ==
    /\ cl.pc = "w_next" /\ cl.todo = {} /\ cl.logged = {}
    /\ ~Live("s2") /\ sessions["a"] = "s1" /\ ~IsNew("s1")
    /\ cl.now - sess["s1"].AccessedF <= sess["s1"].TimeoutF

\* C29. One instant per tick: the cleaner takes the instant that came with
\* the tick and keeps it until the sweep is over, and both scans test
\* against it, not against the clock: the read scan asks for a write scan
\* only when a session of the map has timed out at that instant, and the
\* write scan keeps every entry that has not timed out at that instant.
C29_SameInstant ==
    [][/\ (cl.pc = "select" /\ cl'.pc = "r_rlock") => cl'.now = Head(tickerC)
       /\ (cl.pc \notin {"select", "done"} /\ cl'.pc # "select") => cl'.now = cl.now
       /\ (cl.pc = "r_next" /\ cl'.pc = "w_lock")
             => \E i \in Present :
                   cl.now - sess[sessions[i]].AccessedF > sess[sessions[i]].TimeoutF
       /\ \A i \in Ids :
            (cl.pc = "w_next" /\ i \in cl.todo /\ i \notin cl'.todo)
               => (sessions'[i] = Nil
                     <=> cl.now - sess[sessions[i]].AccessedF
                            > sess[sessions[i]].TimeoutF)]_vars

\* The cleaner has deleted a session in a write scan that runs when the clock
\* is past the instant of the tick.
C29_Witness ==
    cl.pc = "w_next" /\ cl.logged # {} /\ now > cl.now /\ cl.now > 0

\* C30. Complete eviction per tick: when the cleaner releases the write
\* lock at the end of a write scan, no session left in the map has timed out
\* at the instant of that tick.
C30_CompleteEviction ==
    [][(cl.pc = "w_next" /\ cl'.pc = "select")
          => \A i \in Ids :
                sessions'[i] # Nil
                   => cl.now - sess[sessions'[i]].AccessedF
                         <= sess[sessions'[i]].TimeoutF]_vars

\* A write scan has deleted two sessions and is about to release the lock.
C30_Witness ==
    cl.pc = "w_next" /\ cl.todo = {} /\ Cardinality(cl.logged) = 2

\* C31. A tick with nothing to evict: no step of the read scan changes the
\* map or a session or takes the write lock; the cleaner goes on to the
\* write scan only when the read scan found a session that has timed out at
\* the instant of the tick, and when it found none it releases the read lock
\* and waits for the next tick; the cleaner takes the write lock nowhere
\* else.
C31_NothingToEvict ==
    [][/\ (cl.pc \in {"r_rlock", "r_next"} /\ cl' # cl)
             => (sessions' = sessions /\ sess' = sess /\ mux'.w # CL)
       /\ (cl.pc = "r_next" /\ cl'.pc = "w_lock")
             => \E i \in Present :
                   cl.now - sess[sessions[i]].AccessedF > sess[sessions[i]].TimeoutF
       /\ (cl.pc = "r_next" /\ cl.todo = {} /\ cl' # cl)
             => (cl'.pc = "select" /\ CL \notin mux'.r)
       /\ (mux.w # CL /\ mux'.w = CL) => cl.pc = "w_lock"]_vars

\* The read scan of a tick has tested every session of a map that is not
\* empty and found none that has timed out.
C31_Witness ==
    cl.pc = "r_next" /\ cl.todo = {} /\ Cardinality(Present) = 2 /\ cl.now > 0

\* The goroutines that are reading the map of the store: inside Get from the
\* lookup to the return, or inside the read scan; and those that are
\* changing it: inside the body of Add or Remove, or inside the write scan.
StoreReaders ==
    {p \in Procs : th[p].op = "Get"
                     /\ th[p].pc \in {"acc_lock", "acc_drain", "acc_write", "get_ret"}}
       \cup (IF cl.pc = "r_next" THEN {CL} ELSE {})
StoreWriters ==
    {p \in Procs : th[p].pc = "w_body"} \cup (IF cl.pc = "w_next" THEN {CL} ELSE {})

\* C32. Store lock discipline: whoever reads the map holds the store's lock
\* in shared mode, whoever changes it holds it in exclusive mode with no
\* reader inside, so at most one goroutine changes the map and none reads
\* it meanwhile; and the map changes in no step but one of a goroutine that
\* holds the lock in exclusive mode.
C32_StoreLocks ==
    /\ [](/\ Cardinality(StoreWriters) <= 1
          /\ StoreWriters # {} => StoreReaders = {}
          /\ \A h \in StoreWriters : mux.w = h /\ mux.r = {}
          /\ \A h \in StoreReaders : h \in mux.r)
    /\ [][sessions' # sessions => \E h \in StoreWriters : mux.w = h /\ mux.r = {}]_vars

\* A Get and the read scan of the cleaner hold the lock in shared mode at the
\* same time while an Add has announced itself and waits for them.
C32_Witness ==
    \E p, q \in Procs :
      /\ p \in StoreReaders /\ CL \in StoreReaders
      /\ th[q].pc = "w_drain" /\ th[q].op = "Add" /\ mux.w = q

\* Two request goroutines around two sessions, whose ids are equal or not:
\* they create them, add them, get them, remove them and use their
\* attributes; the clock stands and the cleaner sleeps.
NextIndep ==
    \E p \in Procs :
      \/ \E s \in Refs : NewSessionOptions(p, s, FrameOptions)
      \/ \E s \in Refs : AddCall(p, s)
      \/ \E s \in Refs : RemoveCall(p, s)
      \/ \E id \in Ids : GetCall(p, id)
      \/ Progress(p)
      \/ \E s \in Refs : AttrCall(p, s, "x")
      \/ \E s \in Refs : AttrsCall(p, s)
      \/ \E s \in Refs : SetAttrCall(p, s, "x", Nil)
      \/ AttrProgress(p)

SpecIndep == Init /\ [][NextIndep]_vars

\* The calls on the attributes of a session
AttrOps == {"Attr", "Attrs", "SetAttr"}

\* Mutex m is held, or has been asked for in exclusive mode, by another
\* goroutine than p.
HeldByOther(m, p) == m.w \notin {None, p} \/ m.r \ {p} # {}

\* C33. Per-session lock independence: no step of Attr, SetAttr or Attrs
\* touches the store's lock, and whatever the state of the store's lock such
\* a call goes on unless its own session's lock is held by another
\* goroutine; Get, Add and Remove wait for the store's lock, and Get also
\* for the lock of the session that has the id it looks up, and for no
\* other session's lock.
C33_Independent ==
    /\ [][\A p \in Procs :
            (th'[p] # th[p] /\ (th[p].op \in AttrOps \/ th'[p].op \in AttrOps))
               => mux' = mux]_vars
    /\ [](\A p \in Procs :
            /\ th[p].pc \in {"at_read", "as_read", "at_ret", "as_ret",
                             "sa_write", "sa_store"} => ENABLED AttrProgress(p)
            /\ (th[p].pc = "sa_drain" /\ ~ENABLED AttrProgress(p))
                  => HeldByOther(smux[th[p].s], p)
            /\ (th[p].pc = "idle" /\ \E s \in Refs : Live(s) /\ ~HeldByOther(smux[s], p))
                  => ENABLED AttrCalls(p, Refs)
            /\ (th[p].pc \in {"get_rlock", "w_drain"} /\ ~ENABLED Progress(p))
                  => HeldByOther(mux, p)
            /\ (th[p].pc \in {"acc_lock", "acc_drain"} /\ ~ENABLED Progress(p))
                  => /\ sess[th[p].s].IDF = th[p].id
                     /\ HeldByOther(smux[th[p].s], p)
            /\ th[p].pc \in {"acc_write", "get_ret", "w_body"} => ENABLED Progress(p))

\* One goroutine is inside SetAttr on a session, holding its lock, while the
\* other one is inside Add of a session with another id, holding the
\* store's lock in exclusive mode; either can take its next step.
C33_Witness ==
    \E p, q \in Procs :
      /\ th[p].pc = "sa_store" /\ smux[th[p].s].w = p
      /\ th[q].pc = "w_body" /\ th[q].op = "Add" /\ mux.w = q
      /\ sess[th[q].s].IDF # sess[th[p].s].IDF
      /\ ENABLED AttrProgress(p) /\ ENABLED Progress(q)

\* The goroutines that hold the lock of session s inside Access(), between
\* s.mux.Lock() and the assignment to AccessedF with its deferred Unlock.
AccessWriters(s) == {p \in Procs : th[p].pc = "acc_write" /\ th[p].s = s}

MemcacheResults == {"miss", "error", "hit"}
\* What the retry loop over datastore.Get ends with: ErrNoSuchEntity, a
\* service error on every retry, an entity that has expired, an entity whose
\* value does not unmarshal, or a session value.
DatastoreResults == {"none", "error", "expired", "invalid", "hit"}

\* The sessionImpl values the services can hold under id at this instant:
\* marshalled at an earlier access.
StoredSess(id) ==
    {[IDF |-> id, CreatedF |-> 0, AccessedF |-> a,
      TimeoutF |-> SessCleanerInterval + 1,
      AttrsF |-> EmptyMap, CAttrsF |-> EmptyMap] : a \in 0..now}

\* The cell that var sess_ sessionImpl gets.
FreshCell == CHOOSE s \in Refs : ~Live(s) /\ \A r \in Refs : Before(r, s) => Live(r)

\* memcacheStore.Get(id), the whole call: the local cache is looked up and
\* its session returned as it is; else the session comes from the Memcache
\* or, failing that, from the Datastore, gets a new mutex, is accessed and
\* is put into the local cache.  v is history: the path taken.
MemcacheGet(p, id) ==
    /\ th[p].pc = "idle"
    /\ \E mc \in MemcacheResults, ds \in DatastoreResults :
         LET path == IF sessions[id] # Nil THEN "cache"
                     ELSE IF mc = "hit" THEN "memcache"
                     ELSE IF ds = "hit" THEN "datastore" ELSE "nil" IN
         IF path = "cache"
         THEN /\ th' = [th EXCEPT ![p] = [IdleTh EXCEPT !.pc = "mc_ret", !.op = "Get",
                           !.id = id, !.s = sessions[id], !.tnow = now, !.v = path]]
              /\ UNCHANGED <<sess, sessions>>
         ELSE IF path = "nil"
         THEN /\ th' = [th EXCEPT ![p] = [IdleTh EXCEPT !.pc = "mc_ret", !.op = "Get",
                           !.id = id, !.tnow = now, !.v = path]]
              /\ UNCHANGED <<sess, sessions>>
         ELSE /\ \E s \in Refs : ~Live(s)
              /\ \E stored \in StoredSess(id) :
                    sess' = [sess EXCEPT ![FreshCell] = AccessValue(stored, now)]
              /\ sessions' = [sessions EXCEPT ![id] = FreshCell]
              /\ th' = [th EXCEPT ![p] = [IdleTh EXCEPT !.pc = "mc_ret", !.op = "Get",
                           !.id = id, !.s = FreshCell, !.tnow = now, !.v = path]]
    /\ UNCHANGED <<now, smux, mux, closeTicker, tickerOn, tickerC, cl, removed,
                   lin, addedAt, mngr, jar, req, resp, held>>

\* the caller has taken the result of Get
MemcacheReturn(p) ==
    /\ th[p].pc = "mc_ret"
    /\ th' = [th EXCEPT ![p] = IdleTh]
    /\ UNCHANGED <<now, sess, smux, sessions, mux, closeTicker, tickerOn,
                   tickerC, cl, removed, lin, addedAt, mngr, jar, req, resp,
                   held>>

\* memcacheStore.Add(sess): the session enters the local cache when
\* setMemcacheSession has succeeded within the retries
MemcacheAdd(p, s) ==
    /\ th[p].pc = "idle"
    /\ Live(s)
    /\ \E success \in BOOLEAN :
          sessions' = IF success THEN AddEntry(sessions, s) ELSE sessions
    /\ UNCHANGED <<now, sess, smux, mux, closeTicker, tickerOn, tickerC, cl,
                   th, removed, lin, addedAt, mngr, jar, req, resp, held>>

\* memcacheStore.Remove(sess): the session leaves the local cache when
\* memcache.Delete has succeeded within the retries
MemcacheRemove(p, s) ==
    /\ th[p].pc = "idle"
    /\ Live(s)
    /\ \E success \in BOOLEAN :
          sessions' = IF success THEN RemoveEntry(sessions, s) ELSE sessions
    /\ UNCHANGED <<now, sess, smux, mux, closeTicker, tickerOn, tickerC, cl,
                   th, removed, lin, addedAt, mngr, jar, req, resp, held>>

\* One goroutine that creates sessions and calls Add, Get and Remove on a
\* Memcache store while the clock runs.
NextMemcache ==
    \/ AdvanceTime
    \/ \E s \in Refs : NewSessionOptions("p1", s, StoreOptions)
    \/ \E id \in Ids : MemcacheGet("p1", id)
    \/ MemcacheReturn("p1")
    \/ \E s \in Refs : MemcacheAdd("p1", s)
    \/ \E s \in Refs : MemcacheRemove("p1", s)

SpecMemcache == Init /\ [][NextMemcache]_vars

\* C35. Every session that Get of the Memcache store returns has its access
\* time set to the instant of the call, whichever way it was found.
C35_GetRefreshes ==
    \A p \in Procs :
      (th[p].pc = "mc_ret" /\ th[p].s # Nil) => sess[th[p].s].AccessedF = th[p].tnow

\* Get has returned a session from the local cache of the store with an
\* access time older than the call.
C35_Witness ==
    \E p \in Procs :
      /\ th[p].pc = "mc_ret" /\ th[p].v = "cache" /\ th[p].s # Nil
      /\ sess[th[p].s].AccessedF < th[p].tnow

\* What holds of Get: a session loaded from the Memcache or from the
\* Datastore is accessed before it is returned.
C35_LoadedRefreshed ==
    \A p \in Procs :
      (th[p].pc = "mc_ret" /\ th[p].v \in {"memcache", "datastore"})
         => th[p].s # Nil /\ sess[th[p].s].AccessedF = th[p].tnow

\* Two request goroutines that create a session, call Access on it, add it,
\* get it and remove it, next to the cleaner, while the clock runs freely.
NextMono ==
    \/ AdvanceTime
    \/ CleanerTick
    \/ CleanerSweep
    \/ \E p \in Procs :
          \/ NewSessionOptions(p, "s1", FrameOptions)
          \/ AccessCall(p, "s1")
          \/ GetCall(p, "a")
          \/ AddCall(p, "s1")
          \/ RemoveCall(p, "s1")
          \/ Progress(p)

SpecMono == Init /\ [][NextMono]_vars

\* C36. The accessed time of a session never decreases: in every step, the
\* accessed time of every session that exists is at least what it was.
C36_AccessedMonotonic ==
    [][\A s \in Refs : Live(s) => sess'[s].AccessedF >= sess[s].AccessedF]_vars

\* A Get is about to write an instant the clock has already left, on a
\* session that has been accessed before, while an Access() of the other
\* goroutine waits for the session's lock.
C36_Witness ==
    \E p, q \in Procs :
      /\ th[p].pc = "acc_write" /\ th[p].op = "Get" /\ th[p].tnow < now
      /\ sess[th[p].s].AccessedF > sess[th[p].s].CreatedF
      /\ th[q].pc \in {"acc_lock", "acc_drain"} /\ th[q].op = "Access"
      /\ th[q].s = th[p].s

\* The clock moves while nobody runs, as far as the second tick.
FairTick == Quiescent /\ Tick(2 * SessCleanerInterval)

\* Two request goroutines, one that creates a session, adds it, gets it,
\* removes it and closes the store, and one that gets it and uses its
\* attributes, next to the cleaner, with the
\* scheduling Go guarantees (see NextLive): a goroutine inside a call keeps
\* running, a goroutine blocked on a sync.RWMutex gets it, and the select of
\* the cleaner takes a case that is ready again and again.
NextFair ==
    \/ FairTick
    \/ Cleaner
    \/ NewSessionOptions("p1", "s1", FrameOptions)
    \/ AddCall("p1", "s1")
    \/ RemoveCall("p1", "s1")
    \/ StoreClose("p1")
    \/ AttrCall("p2", "s1", "x")
    \/ AttrsCall("p2", "s1")
    \/ SetAttrCall("p2", "s1", "x", Nil)
    \/ \E p \in Procs :
          \/ GetCall(p, "a")
          \/ Progress(p)
          \/ AttrProgress(p)

SpecFair ==
    /\ Init /\ [][NextFair]_vars
    /\ SF_vars(CleanerShutdown)
    /\ SF_vars(CleanerSweep)
    /\ \A p \in Procs : SF_vars(Progress(p) \/ AttrProgress(p))

\* Goroutine h holds, or has asked for, the lock of some session.
HasSessionLock(h) == \E s \in Refs : smux[s].w = h \/ h \in smux[s].r

\* C37. Deadlock freedom: a goroutine that asks or waits for the store's
\* lock holds no session's lock (the order is store, then session); every
\* call of Get, Add, Remove, Attr, SetAttr and Attrs that has started
\* returns, and every sweep of the cleaner ends; and when nobody is inside a
\* call or a sweep every lock is free.
C37_DeadlockFree ==
    /\ [](/\ \A p \in Procs :
               th[p].pc \in {"get_rlock", "w_drain"} => ~HasSessionLock(p)
          /\ cl.pc \in {"r_rlock", "w_lock", "w_drain"} => ~HasSessionLock(CL))
    /\ [][\A p \in Procs : (mux'.w = p /\ mux.w # p) \/ (p \in mux'.r /\ p \notin mux.r)
              => ~HasSessionLock(p)]_vars
    /\ \A p \in Procs : (th[p].pc \notin {"idle", "panic"}) ~> (th[p].pc = "idle")
    /\ (cl.pc \notin {"select", "done"}) ~> (cl.pc = "select")
    /\ []((cl.pc \in {"select", "done"} /\ \A p \in Procs : th[p].pc \in {"idle", "panic"})
             => (mux = FreeMux /\ \A s \in Refs : smux[s] = FreeMux))

\* A chain of waits: the write scan of the cleaner has asked for the store's
\* lock and waits for a Get to leave, the Get waits for the lock of the
\* session, and the other goroutine holds that lock inside SetAttr.
C37_Witness ==
    \E p, q \in Procs :
      /\ cl.pc = "w_drain" /\ mux.w = CL /\ p \in mux.r
      /\ th[p].pc \in {"acc_lock", "acc_drain"}
      /\ th[q].pc \in {"sa_write", "sa_store"} /\ th[q].s = th[p].s
      /\ smux[th[p].s].w = q

\* C38. Get does not check the timeout: the lookup of a Get finds the
\* session the map holds under the id however long it has been idle; a Get
\* that found a session returns it with the accessed time set to an instant
\* of the call; and the cleaner deletes a session only when, at the moment
\* of the test in the write scan, the accessed time it has by then lies
\* further back than its timeout.
C38_GetIgnoresTimeout ==
    [][/\ \A p \in Procs :
            /\ (th[p].pc = "get_rlock" /\ th'[p].pc # "get_rlock"
                   /\ sessions[th[p].id] # Nil)
                  => (th'[p].pc = "acc_lock" /\ th'[p].s = sessions[th[p].id])
            /\ (GetReturns(p) /\ Hit(p))
                  => /\ sess[th[p].s].AccessedF = th[p].tnow
                     /\ th[p].tnow >= th[p].t0
       /\ \A i \in Ids :
            (cl.pc = "w_next" /\ cl' # cl /\ sessions[i] # Nil /\ sessions'[i] = Nil)
               => cl.now - sess[sessions[i]].AccessedF > sess[sessions[i]].TimeoutF]_vars

\* The read scan found the only session of the store idle for too long, a
\* Get refreshed it before the write scan got the lock, and the write scan
\* is about to test it and keep it.
C38_Witness ==
    \E i \in Ids :
      /\ cl.pc = "w_next" /\ cl.todo = {i} /\ Present = {i}
      /\ cl.now - sess[sessions[i]].CreatedF > sess[sessions[i]].TimeoutF
      /\ sess[sessions[i]].AccessedF = cl.now
      /\ ~TimedOut(cl.now, sess[sessions[i]].AccessedF, sess[sessions[i]].TimeoutF)

\* C39. After Close and the end of the cleaner no session is removed by
\* timeout: once the cleaner has taken the close case it has returned and
\* takes no step again, the map changes only in the body of an Add or of a
\* Remove, an entry leaves the map only in the body of a Remove of its id,
\* and the lookup of a Get finds what the map holds, however long that
\* session has been idle.
C39_NoEvictionAfterClose ==
    /\ [](~tickerOn => (closeTicker /\ cl.pc = "done"))
    /\ [][~tickerOn =>
            /\ cl' = cl
            /\ sessions' # sessions => \E p \in Procs : AddRuns(p) \/ RemoveRuns(p)
            /\ \A i \in Ids :
                 (sessions[i] # Nil /\ sessions'[i] = Nil)
                    => \E p \in Procs : RemoveRuns(p) /\ sess[th[p].s].IDF = i
            /\ \A p \in Procs :
                 (th[p].pc = "get_rlock" /\ th'[p].pc # "get_rlock"
                    /\ sessions[th[p].id] # Nil)
                    => (th'[p].pc = "acc_lock" /\ th'[p].s = sessions[th[p].id])]_vars

\* The store is closed, the cleaner has returned, and a Get has found a
\* session that has been idle for longer than its timeout and one interval
\* of the cleaner, which a running cleaner would have evicted.
C39_Witness ==
    \E p \in Procs :
      /\ closeTicker /\ cl.pc = "done" /\ ~tickerOn
      /\ th[p].pc = "acc_lock" /\ Hit(p)
      /\ now - sess[th[p].s].AccessedF > sess[th[p].s].TimeoutF + SessCleanerInterval

\* CookieManager.Close(): m.store.Close()
MngrClose(p) ==
    /\ mngr # NoMngr
    /\ StoreClose(p)

\* The top-level Close(): Global.Close(), on the Global of the package,
\* NewCookieManager(NewInMemStore()), the manager with the zero options
GlobalClose(p) ==
    /\ mngr = NewCookieManagerValue(CHOOSE o \in CookieMngrOptions :
                                       o.SessIDCookieName = "" /\ o.CookieMaxAge = 0)
    /\ MngrClose(p)

\* Two goroutines that use a store through its manager or directly and
\* close it, once or more often, in any of the three ways, next to the
\* cleaner.
NextClose ==
    \/ QuietTick
    \/ Cleaner
    \/ \E o \in CookieMngrOptions : NewCookieManagerOptions(o)
    \/ \E p \in Procs :
          \/ StoreClose(p)
          \/ MngrClose(p)
          \/ GlobalClose(p)
          \/ NewSessionOptions(p, "s1", FrameOptions)
          \/ AddCall(p, "s1")
          \/ RemoveCall(p, "s1")
          \/ GetCall(p, "a")
          \/ Progress(p)

SpecClose == Init /\ [][NextClose]_vars

\* C40. Close is not idempotent: the step that closes the store leaves its
\* caller where it was, returned; a goroutine starts to panic only in a
\* Close of a store that is closed already, and that step changes nothing
\* else; a goroutine that panics never runs again; and on a closed store a
\* Close, by any of the three ways, can only end in a panic.
C40_SecondClosePanics ==
    /\ [][/\ (~closeTicker /\ closeTicker') => th' = th
          /\ \A p \in Procs :
               /\ (th[p].pc # "panic" /\ th'[p].pc = "panic")
                     => /\ closeTicker /\ closeTicker'
                        /\ th[p].pc = "idle" /\ th'[p].op = "Close"
                        /\ sessions' = sessions /\ cl' = cl /\ mux' = mux
               /\ th[p].pc = "panic" => th'[p] = th[p]]_vars
    /\ [](\A p \in Procs :
            (closeTicker /\ th[p].pc = "idle")
               => /\ ENABLED (StoreClose(p) /\ th'[p].pc = "panic")
                  /\ ~ENABLED (StoreClose(p) /\ th'[p].pc # "panic")
                  /\ mngr # NoMngr
                        => /\ ENABLED (MngrClose(p) /\ th'[p].pc = "panic")
                           /\ ~ENABLED (MngrClose(p) /\ th'[p].pc # "panic")
                  /\ ENABLED GlobalClose(p)
                        => ~ENABLED (GlobalClose(p) /\ th'[p].pc # "panic"))

\* One goroutine has closed the store of the package's Global and returned,
\* the cleaner has ended, and the other goroutine's Close has panicked.
C40_Witness ==
    \E p, q \in Procs :
      /\ closeTicker /\ cl.pc = "done"
      /\ th[p].pc = "panic" /\ th[p].op = "Close"
      /\ th[q].pc = "idle" /\ q # p
      /\ ENABLED GlobalClose(q)

====
